---- MODULE Spec2Model ----
(***************************************************************************)
(* A model of the numerical distribution engine of savvystats.js (v0.2):   *)
(* the special functions, the distribution evaluators, the inverse         *)
(* searches and the interval / test routines built on them.                *)
(*                                                                         *)
(* Numbers.  JavaScript numbers are IEEE doubles.  The model uses          *)
(*   - exact integers where the code computes with integers (k, step, n),  *)
(*   - exact rationals over a common denominator for the binomial masses,  *)
(*   - signed fixed-point decimals ("reals") of FracLimbs*4 decimal places *)
(*     for the continuous computations; every product and quotient is      *)
(*     truncated toward zero at that resolution, which plays the part of   *)
(*     the double's rounding,                                              *)
(*   - NaN and the infinities as reals with the sign fields 0, 2 and -2,   *)
(*     where the code can produce or receive them.                         *)
(***************************************************************************)
EXTENDS Integers, Naturals, Sequences, FiniteSets, TLC

(***************************************************************************)
(* Fixed-point reals: [s |-> 1 or -1, m |-> magnitude], the magnitude a    *)
(* little-endian sequence of NumLimbs digits in base Base, the lowest      *)
(* FracLimbs of them after the point.  Zero always carries s = 1.          *)
(***************************************************************************)
Base == 10 ^ 4
FracLimbs == 2 + 2
IntLimbs == 1 + 1
NumLimbs == FracLimbs + IntLimbs

\* F at the values of its arguments, each evaluated once
Apply1(F(_), a) == CHOOSE r \in {F(x) : x \in {a}} : TRUE
Apply2(F(_, _), a, b) == CHOOSE r \in {F(x, y) : x \in {a}, y \in {b}} : TRUE

\* the sequence of the values of f on 1..n
Seq1(f, n) == SubSeq(f, 1, n)
At(c, j) == IF j >= 1 THEN c[j] ELSE 0

\* columns below Base ^ 3 to columns below 3 * Base
Spread(c) ==
    Apply1(LAMBDA d : Seq1([j \in 1..Len(d) |->
                              (d[j] % Base) + ((At(d, j - 1) \div Base) % Base)
                              + (At(d, j - 2) \div (Base * Base))], Len(d)), c)

\* columns below 3 * Base to columns below 2 * Base
Fold(c) ==
    Apply1(LAMBDA d : Seq1([j \in 1..Len(d) |-> (d[j] % Base) + (At(d, j - 1) \div Base)], Len(d)), c)

\* columns below 2 * Base to digits: a carry of one enters column j when a
\* lower column overflows and every column between is full
Ripple(c) ==
    Apply1(LAMBDA d : Seq1([j \in 1..Len(d) |->
                              (d[j] + IF \E i \in 1..(j - 1) :
                                            d[i] >= Base /\ \A k \in (i + 1)..(j - 1) : d[k] = Base - 1
                                       THEN 1 ELSE 0) % Base], Len(d)), c)

\* the n digits of the non-negative column sums c, carries propagated upward
Carry(c, n) == Ripple(Fold(Spread(Seq1(c, n))))

MagZero == [i \in 1..NumLimbs |-> 0]

RECURSIVE MagCmpFrom(_, _, _)
MagCmpFrom(a, b, i) ==
    IF i = 0 THEN 0
    ELSE IF a[i] > b[i] THEN 1
    ELSE IF a[i] < b[i] THEN -1
    ELSE MagCmpFrom(a, b, i - 1)

MagCmp(a, b) == MagCmpFrom(a, b, NumLimbs)

MagAdd(a, b) == Carry([i \in 1..NumLimbs |-> a[i] + b[i]], NumLimbs)

\* a - b for a >= b
MagSub(a, b) ==
    Seq1([j \in 1..NumLimbs |->
            (a[j] - b[j] - IF \E i \in 1..(j - 1) :
                                a[i] < b[i] /\ \A k \in (i + 1)..(j - 1) : a[k] = b[k]
                           THEN 1 ELSE 0) % Base], NumLimbs)

RECURSIVE ColSum(_, _, _, _, _)
ColSum(a, b, j, i, hi) ==
    IF i > hi THEN 0 ELSE a[i] * b[j - i + 1] + ColSum(a, b, j, i + 1, hi)

Max2(x, y) == IF x > y THEN x ELSE y
Min2(x, y) == IF x < y THEN x ELSE y

\* the product of two magnitudes, truncated to the fixed-point resolution
MagMul(a, b) ==
    SubSeq(Carry([j \in 1..(2 * NumLimbs) |->
                     ColSum(a, b, j, Max2(1, j - NumLimbs + 1), Min2(NumLimbs, j))],
                 2 * NumLimbs),
           FracLimbs + 1, FracLimbs + NumLimbs)

MagMulInt(a, n) == Carry([i \in 1..NumLimbs |-> a[i] * n], NumLimbs)

\* long division of a magnitude by a small positive integer, truncated:
\* the quotient digits from digit i down, v the running dividend
RECURSIVE DivFrom(_, _, _, _)
DivFrom(a, n, i, v) ==
    IF i = 1 THEN <<v \div n>>
    ELSE Apply2(LAMBDA w, j : <<v \div n>> \o DivFrom(a, n, j, w), (v % n) * Base + a[i - 1], i - 1)

Reversed(r) == [i \in 1..NumLimbs |-> r[NumLimbs + 1 - i]]
MagDivInt(a, n) == Apply1(Reversed, DivFrom(a, n, NumLimbs, a[NumLimbs]))

RMk(s, m) == Apply2(LAMBDA t, d : [s |-> IF t # 0 /\ d = MagZero THEN 1 ELSE t, m |-> d], s, m)

RZero == [s |-> 1, m |-> MagZero]

\* the real with integer part n >= 0 and the four base-Base fraction digits f
\* (most significant first)
RLit(s, n, f) ==
    RMk(s, [i \in 1..NumLimbs |->
             IF i <= FracLimbs - 4 THEN 0
             ELSE IF i <= FracLimbs THEN f[FracLimbs - i + 1]
             ELSE IF i = FracLimbs + 1 THEN n % Base
             ELSE IF i = FracLimbs + 2 THEN (n \div Base) % Base
             ELSE 0])

RInt(n) == IF n >= 0 THEN RLit(1, n, <<0, 0, 0, 0>>) ELSE RLit(-1, -n, <<0, 0, 0, 0>>)

RNeg(a) == Apply1(LAMBDA x : RMk(-x.s, x.m), a)
RAbs(a) == Apply1(LAMBDA x : RMk(1, x.m), a)
RSign(a) == Apply1(LAMBDA x : IF x.m = MagZero THEN 0 ELSE x.s, a)

RAdd(a, b) ==
    Apply2(LAMBDA x, y :
               IF x.s = y.s THEN RMk(x.s, MagAdd(x.m, y.m))
               ELSE IF MagCmp(x.m, y.m) >= 0 THEN RMk(x.s, MagSub(x.m, y.m))
               ELSE RMk(y.s, MagSub(y.m, x.m)),
           a, b)

RSub(a, b) == RAdd(a, RNeg(b))
RMul(a, b) == Apply2(LAMBDA x, y : RMk(x.s * y.s, MagMul(x.m, y.m)), a, b)
RMulInt(a, n) ==
    Apply2(LAMBDA x, k : IF k >= 0 THEN RMk(x.s, MagMulInt(x.m, k)) ELSE RMk(-x.s, MagMulInt(x.m, -k)),
           a, n)
RDivInt(a, n) == Apply2(LAMBDA x, k : RMk(x.s, MagDivInt(x.m, k)), a, n)

\* the non-finite doubles
RNaN == [s |-> 0, m |-> MagZero]
RInf == [s |-> 2, m |-> MagZero]
RNegInf == [s |-> -2, m |-> MagZero]
IsNaN(a) == a.s = 0
IsFinite(a) == a.s = 1 \/ a.s = -1

\* -1, 0, 1 as a < b, a = b, a > b
RCmp(a, b) == RSign(RSub(a, b))
RLt(a, b) == RCmp(a, b) < 0
RGt(a, b) == RCmp(a, b) > 0

(***************************************************************************)
(* State: a call of a library function, and the call it makes in turn.     *)
(*   fn    the function running                                            *)
(*   args  its arguments                                                   *)
(*   pc    where it is: "call" (entered), "loop" (before a pass of its     *)
(*         loop), "eval" (waiting for the function it called), "done"      *)
(*         (returned), "threw" (raised an error)                           *)
(*   loc   its local variables, under the names the code gives them        *)
(*   sub   the frame of the function it called: that function's name, pc   *)
(*         and local variables                                             *)
(*   ret   what it returned or the messages of the error it raised         *)
(***************************************************************************)
VARIABLES fn, args, pc, loc, sub, ret

vars == <<fn, args, pc, loc, sub, ret>>

NoLoc == [none |-> TRUE]
NoSub == [fn |-> "none", pc |-> "none"]
NoRet == [kind |-> "none"]
Value(v) == [kind |-> "value", value |-> v]
Error(msgs) == [kind |-> "error", errors |-> msgs]

(***************************************************************************)
(* norm.dist(x, mean, stdev, true): the Taylor series of the error         *)
(* function, one pass of its do-while per step.                            *)
(***************************************************************************)
\* 1 / Math.sqrt(2) and 2 / Math.sqrt(Math.PI)
InvSqrt2 == RLit(1, 0, <<7071, 0678, 1186, 5475>>)
TwoOverSqrtPi == RLit(1, 1, <<1283, 7916, 7095, 5126>>)
ROne == RInt(1)

\* error = 2.0e-10 times |x|
SeriesTol(x) == RDivInt(RDivInt(RMulInt(RAbs(x), 2), 10 ^ 5), 10 ^ 5)
seriesMaxIter == 1000

\* Math.abs((sum - lastSum)/sum) > error; 0/0 is NaN (false), d/0 is Infinity (true)
RelChangeExceeds(sum, lastSum) ==
    IF RSign(sum) = 0 THEN RSign(RSub(sum, lastSum)) # 0
    ELSE RGt(RAbs(RSub(sum, lastSum)), SeriesTol(sum))

\* a loop condition that has lost its count: (error test) alone
LoopGoesOn_NoCap(exceeds, count, cap) == exceeds
\* the shape of every capped loop condition: (error test) && count < maxIter
LoopGoesOn(exceeds, count, cap) == exceeds /\ count < cap

\* the while condition of the series loops, with n already incremented
SeriesGoesOn(sum, lastSum, n) == LoopGoesOn(RelChangeExceeds(sum, lastSum), n, seriesMaxIter)

\* errorFunction > bound and errorFunction < bound for a double that may be
\* infinite or NaN, and a finite bound
ErfAbove(errorFunction, bound) ==
    errorFunction = RInf \/ (IsFinite(errorFunction) /\ RGt(errorFunction, bound))
ErfBelow(errorFunction, bound) ==
    errorFunction = RNegInf \/ (IsFinite(errorFunction) /\ RLt(errorFunction, bound))

\* the clamp of the error-function value and its mapping to a probability:
\* errorFunction > 1 || Math.abs(errorFunction) === Infinity gives 1,
\* errorFunction < -1 gives 0, anything else 1 / 2 * (1 + errorFunction)
NormProbOfErf(errorFunction) ==
    IF ErfAbove(errorFunction, ROne) \/ errorFunction \in {RInf, RNegInf} THEN ROne
    ELSE IF ErfBelow(errorFunction, RNeg(ROne)) THEN RZero
    ELSE IF IsNaN(errorFunction) THEN RNaN
    ELSE RDivInt(RAdd(ROne, errorFunction), 2)

\* value *= (-1 * errorFuncInput^2 * (2n - 1)) / (n * (2n + 1))
NormNextValue(value, errorFuncInput, n) ==
    RNeg(RDivInt(RDivInt(RMulInt(RMul(value, RMul(errorFuncInput, errorFuncInput)),
                                 2 * n - 1), n), 2 * n + 1))

\* the frame of norm.dist(x, mean, stdev, true) on entry, for integer mean and stdev > 0
NormDistFrame(x, mean, stdev) ==
    LET F(errorFuncInput) ==
            [fn |-> "norm.dist", pc |-> "loop", errorFuncInput |-> errorFuncInput,
             value |-> errorFuncInput, sum |-> errorFuncInput, lastSum |-> RZero,
             n |-> 1, prob |-> RNaN]
    IN  F(RMul(RDivInt(RSub(x, RInt(mean)), stdev), InvSqrt2))

NormDistPass ==
    /\ sub.fn = "norm.dist" /\ sub.pc = "loop"
    /\ \E value \in {NormNextValue(sub.value, sub.errorFuncInput, sub.n)} :
       \E sum \in {RAdd(sub.sum, value)} :
          sub' = [sub EXCEPT !.lastSum = sub.sum, !.value = value, !.sum = sum,
                             !.n = sub.n + 1,
                             !.pc = IF SeriesGoesOn(sum, sub.sum, sub.n + 1)
                                    THEN "loop" ELSE "done",
                             !.prob = IF SeriesGoesOn(sum, sub.sum, sub.n + 1)
                                      THEN sub.prob
                                      ELSE NormProbOfErf(RMul(TwoOverSqrtPi, sum))]
    /\ UNCHANGED <<fn, args, pc, loc, ret>>

(***************************************************************************)
(* The last step of cumulative norm.dist alone: the clamp is applied to an *)
(* error-function value drawn from ErfValues.  For large |x| the series    *)
(* overflows, and the value it ends with is Infinity, -Infinity or NaN.    *)
(***************************************************************************)
ErfSteps == 32
ErfValues == {RDivInt(RInt(k), 8) : k \in (-ErfSteps)..ErfSteps} \cup {RInf, RNegInf, RNaN}

NormDistClamp ==
    /\ fn = "norm.dist" /\ pc = "clamp"
    /\ pc' = "done"
    /\ ret' = Value(NormProbOfErf(args.errorFunction))
    /\ UNCHANGED <<fn, args, loc, sub>>

InitClamp ==
    /\ fn = "norm.dist"
    /\ args \in [errorFunction : ErfValues]
    /\ pc = "clamp"
    /\ loc = NoLoc
    /\ sub = NoSub
    /\ ret = NoRet

NextClamp == NormDistClamp

SpecClamp == InitClamp /\ [][NextClamp]_vars

(***************************************************************************)
(* norm.inv: the continuous inverse search.                                *)
(***************************************************************************)
\* error = 1e-10
solverError == RLit(1, 0, <<0, 0, 100, 0>>)
maxIter == 1000
\* step = 0.25, stepInc = 1.2, stepDec = 0.5
normStep0 == RLit(1, 0, <<2500, 0, 0, 0>>)
GrowStep(step) == RDivInt(RMulInt(step, 12), 10)
ShrinkStep(step) == RDivInt(step, 2)
RHalf == RLit(1, 0, <<5000, 0, 0, 0>>)

NormInvErrors(a) ==
    (IF IsNaN(a.prob) THEN <<"norm.inv: the probability is not a number">> ELSE <<>>)
    \o (IF ~IsNaN(a.prob) /\ (RGt(a.prob, ROne) \/ RLt(a.prob, RZero))
        THEN <<"norm.inv: the probability should be between 0 and 1 including the bounds">>
        ELSE <<>>)
    \o (IF a.stdev < 0 THEN <<"norm.inv: the standard deviation should be positive">> ELSE <<>>)

NormInvGuess(prob) ==
    IF RLt(prob, RHalf) THEN RNeg(RHalf)
    ELSE IF RGt(prob, RHalf) THEN RHalf
    ELSE RZero

\* a search that always steps up
SolverDirection_Up(diff) == 1
SolverDirection(diff) == RSign(diff)

\* lastDiff * diff > 0 grows the step, anything else shrinks it
SolverStep(lastDiff, diff, step) ==
    IF RSign(lastDiff) * RSign(diff) > 0 THEN GrowStep(step) ELSE ShrinkStep(step)

\* the while condition of the do-while, with iter already incremented
SolverContinues(diff, iter) == LoopGoesOn(RGt(RAbs(diff), solverError), iter, maxIter)

\* entry: the argument checks, the locals and the initial guess
NormInvEnter ==
    /\ fn = "norm.inv" /\ pc = "call"
    /\ LET errors == NormInvErrors(args)
       IN  IF Len(errors) > 0
           THEN /\ pc' = "threw"
                /\ ret' = Error(errors)
                /\ loc' = loc
           ELSE /\ pc' = "loop"
                /\ loc' = [z |-> NormInvGuess(args.prob), diff |-> RZero, step |-> normStep0,
                           iter |-> 0, direction |-> 1, lastDiff |-> ROne]
                /\ ret' = ret
    /\ UNCHANGED <<fn, args, sub>>

\* the head of a pass: globalObject.norm.dist(z, 0, 1, true) is called
NormInvCallDist ==
    /\ fn = "norm.inv" /\ pc = "loop"
    /\ sub' = NormDistFrame(loc.z, 0, 1)
    /\ pc' = "eval"
    /\ UNCHANGED <<fn, args, loc, ret>>

\* the rest of the pass once norm.dist has returned, and the while condition
NormInvPass ==
    /\ fn = "norm.inv" /\ pc = "eval" /\ sub.pc = "done"
    /\ \E diff \in {RSub(args.prob, sub.prob)} :
       \E step \in {SolverStep(loc.lastDiff, diff, loc.step)} :
       \E z \in {RAdd(loc.z, RMulInt(step, SolverDirection(diff)))} :
          /\ loc' = [z |-> z, diff |-> diff, step |-> step, iter |-> loc.iter + 1,
                     direction |-> SolverDirection(diff), lastDiff |-> diff]
          /\ IF SolverContinues(diff, loc.iter + 1)
             THEN pc' = "loop" /\ ret' = ret
             ELSE pc' = "done" /\ ret' = Value(RAdd(RMulInt(z, args.stdev), RInt(args.mean)))
    /\ sub' = NoSub
    /\ UNCHANGED <<fn, args>>

\* the round trip: norm.dist at the value norm.inv returned, same mean and stdev
RoundTripCallDist ==
    /\ fn = "norm.inv" /\ pc = "done"
    /\ sub' = NormDistFrame(ret.value, args.mean, args.stdev)
    /\ pc' = "eval_back"
    /\ UNCHANGED <<fn, args, loc, ret>>

RoundTripDone ==
    /\ fn = "norm.inv" /\ pc = "eval_back" /\ sub.pc = "done"
    /\ pc' = "back"
    /\ UNCHANGED <<fn, args, loc, sub, ret>>

(***************************************************************************)
(* Scalar arguments.  A JavaScript number argument is [t, q]: t = "num"    *)
(* with the value q / Unit, t = "nan" for NaN (any non-numeric argument),  *)
(* t = "undef" for an argument left out.  Binomial probabilities are the   *)
(* exact rationals [n, d] these give.                                      *)
(***************************************************************************)
Unit == 4 * 5
Num(q) == [t |-> "num", q |-> q]
NumInt(v) == [t |-> "num", q |-> v * Unit]
NaN == [t |-> "nan", q |-> 0]
Undef == [t |-> "undef", q |-> 0]
\* isNaN(x): undefined converts to NaN
isNaN(x) == x.t # "num"
\* x < y, x > y on numbers: false when either is NaN
Lt(x, y) == x.t = "num" /\ y.t = "num" /\ x.q < y.q
Gt(x, y) == Lt(y, x)
\* number === parseInt(number)
isInt(x) == x.t = "num" /\ x.q % Unit = 0
\* x % 1 > 0 (the remainder keeps the sign of x, so it is false for x < 0)
FracPositive(x) == x.t = "num" /\ x.q > 0 /\ x.q % Unit # 0
IntOf(x) == x.q \div Unit

RECURSIVE GCD(_, _)
GCD(x, y) == IF y = 0 THEN x ELSE Apply2(GCD, y, x % y)
\* the fraction n / d (d > 0) in lowest terms
Rat(n, d) ==
    IF n = 0 THEN [n |-> 0, d |-> 1]
    ELSE Apply1(LAMBDA g : [n |-> n \div g, d |-> d \div g], GCD(n, d))
RatMul(x, y) == Apply2(LAMBDA p, q : Rat(p.n * q.n, p.d * q.d), x, y)
RatAdd(x, y) == Apply2(LAMBDA p, q : Rat(p.n * q.d + q.n * p.d, p.d * q.d), x, y)
RatGt(x, y) == Apply2(LAMBDA p, q : p.n * q.d > q.n * p.d, x, y)
RECURSIVE RatPow(_, _)
RatPow(x, e) == IF e = 0 THEN Rat(1, 1) ELSE RatMul(x, RatPow(x, e - 1))
RatOfNum(x) == Rat(x.q, Unit)

(***************************************************************************)
(* binom.dist                                                              *)
(***************************************************************************)
\* the argument checks of binom.dist, in the order the code makes them
BinomDistErrors(successes, trials, probability) ==
    (IF ~isInt(successes) THEN <<"binom.dist: The number of successes must be an integer">> ELSE <<>>)
    \o (IF Lt(successes, NumInt(0)) THEN <<"binom.dist: The number of successes must be a positive integer">> ELSE <<>>)
    \o (IF ~isInt(trials) THEN <<"binom.dist: The number of trials must be an integer">> ELSE <<>>)
    \o (IF Lt(trials, NumInt(0)) THEN <<"binom.dist: The number of trials must be a positive integer">> ELSE <<>>)
    \o (IF Gt(successes, trials) THEN <<"binom.dist: It is impossible to have more successes than trials">> ELSE <<>>)
    \o (IF probability.t = "undef" THEN <<"binom.dist: A probability of success must be provided">> ELSE <<>>)
    \o (IF Gt(probability, NumInt(1)) \/ Lt(probability, NumInt(0))
        THEN <<"binom.dist: The probability of a success must be between 0 and 1">> ELSE <<>>)

\* the loop over the terms numerator / denominator of binomDistCalc
RECURSIVE BinomTerms(_, _, _, _)
BinomTerms(prob, numerator, numeratorProductEnd, denominator) ==
    IF numerator > numeratorProductEnd
    THEN Apply1(LAMBDA next : BinomTerms(next, numerator - 1, numeratorProductEnd, denominator - 1),
                RatMul(prob, Rat(numerator, denominator)))
    ELSE prob

\* binomDistCalc(successes, trials, probability) on integers successes <= trials
\* and a probability p in [0, 1], in exact arithmetic
BinomDistCalc_NoLastValue(successes, trials, p) ==
    BinomTerms(RatPow(p, successes), trials,
               Max2(successes, trials - successes), Min2(successes, trials - successes))
BinomDistCalc(successes, trials, p) ==
    LET successProbabiltyTerm == RatPow(p, successes)
        mutExclProbabilityTerm == RatPow(Rat(p.d - p.n, p.d), trials - successes)
        small == IF RatGt(successProbabiltyTerm, mutExclProbabilityTerm)
                 THEN mutExclProbabilityTerm ELSE successProbabiltyTerm
        lastValue == IF RatGt(successProbabiltyTerm, mutExclProbabilityTerm)
                     THEN successProbabiltyTerm ELSE mutExclProbabilityTerm
        numeratorProductEnd == IF successes > trials - successes
                               THEN successes ELSE trials - successes
        denominator == IF successes > trials - successes
                       THEN trials - successes ELSE successes
    IN  IF successProbabiltyTerm.n = 0 \/ mutExclProbabilityTerm.n = 0 THEN Rat(0, 1)
        ELSE RatMul(BinomTerms(small, trials, numeratorProductEnd, denominator), lastValue)

\* the cumulative loop: for (successes; successes >= 0; successes--)
RECURSIVE BinomCumulative_FromOne(_, _, _)
BinomCumulative_FromOne(successes, trials, p) ==
    IF successes < 1 THEN Rat(0, 1)
    ELSE RatAdd(BinomCumulative_FromOne(successes - 1, trials, p), BinomDistCalc(successes, trials, p))
RECURSIVE BinomCumulative(_, _, _)
BinomCumulative(successes, trials, p) ==
    IF successes < 0 THEN Rat(0, 1)
    ELSE RatAdd(BinomCumulative(successes - 1, trials, p), BinomDistCalc(successes, trials, p))

\* binom.dist(successes, trials, probability, cumulative): the error raised or
\* the rational returned.  A probability that is NaN passes the checks:
\* Math.pow(NaN, 0) is 1, so the result is 1 for 0 trials and NaN otherwise
BinomDist(successes, trials, probability, cumulative) ==
    LET errors == BinomDistErrors(successes, trials, probability)
    IN  IF Len(errors) > 0 THEN Error(errors)
        ELSE IF isNaN(probability)
             THEN Value(IF IntOf(trials) = 0 THEN Rat(1, 1) ELSE NaN)
        ELSE IF cumulative
             THEN Value(BinomCumulative(IntOf(successes), IntOf(trials), RatOfNum(probability)))
             ELSE Value(BinomDistCalc(IntOf(successes), IntOf(trials), RatOfNum(probability)))

\* the probabilities norm.inv is called with: ordinary ones, one within 1e-10 of
\* norm.dist at the initial guess -0.5, and some that are no probabilities
SolverProbs ==
    { RLit(1, 0, <<250, 0, 0, 0>>), RLit(1, 0, <<3000, 0, 0, 0>>), RHalf,
      RLit(1, 0, <<9750, 0, 0, 0>>),
      RLit(1, 0, <<3085, 3753, 8775, 9869>>),
      RLit(-1, 0, <<5000, 0, 0, 0>>), RLit(1, 1, <<5000, 0, 0, 0>>), RNaN }

InitSolver ==
    /\ fn = "norm.inv"
    /\ args \in [prob : SolverProbs, mean : {0}, stdev : {1, 2}]
    /\ pc = "call"
    /\ loc = NoLoc
    /\ sub = NoSub
    /\ ret = NoRet

NextSolver ==
    \/ NormInvEnter
    \/ NormInvCallDist
    \/ NormDistPass
    \/ NormInvPass
    \/ RoundTripCallDist
    \/ RoundTripDone

SpecSolver == InitSolver /\ [][NextSolver]_vars

(***************************************************************************)
(* binom.inv.  The step of the search is a power of two: step.exp is its   *)
(* exponent, and InfExp stands for the overflow of the double to Infinity. *)
(* The counter iter is written but never read and is left out.             *)
(***************************************************************************)
InfExp == 2 ^ 10
ShiftLimit == 4 * 5
Half == Num(Unit \div 2)
RatSub(x, y) == Apply2(LAMBDA p, q : Rat(p.n * q.d - q.n * p.d, p.d * q.d), x, y)
RatSign(x) == IF x.n > 0 THEN 1 ELSE IF x.n < 0 THEN -1 ELSE 0

\* step = 2
searchStep0 == [exp |-> 1]
\* step *= stepInc
StepInc(step) == [exp |-> Min2(step.exp + 1, InfExp)]
\* step *= stepDec; step = step < 1 ? 1 : step
StepDec(step) == IF step.exp >= InfExp THEN step ELSE [exp |-> Max2(step.exp - 1, 0)]
\* Math.abs(step) !== 1
StepNotOne(step) == step.exp # 0

BinomInvErrors(a) ==
    (IF isNaN(a.cumulativeProb) \/ Lt(a.cumulativeProb, NumInt(0)) \/ Gt(a.cumulativeProb, NumInt(1))
     THEN <<"binom.inv: the cumulative probability must be a number between 0 and 1">> ELSE <<>>)
    \o (IF isNaN(a.trials) \/ FracPositive(a.trials) \/ Lt(a.trials, NumInt(0))
        THEN <<"binom.inv: the trials must be an integer greater than 0">> ELSE <<>>)
    \o (IF isNaN(a.successProb) \/ Lt(a.successProb, NumInt(0)) \/ Gt(a.successProb, NumInt(1))
        THEN <<"binom.inv: The probability of success must be a number between 0 and 1">> ELSE <<>>)

\* Math.floor(trials * successProb) - 1, + 1 or + 0
BinomInvGuess(a) ==
    LET mean == (IntOf(a.trials) * a.successProb.q) \div Unit
    IN  IF Lt(a.cumulativeProb, Half) THEN NumInt(mean - 1)
        ELSE IF Gt(a.cumulativeProb, Half) THEN NumInt(mean + 1)
        ELSE NumInt(mean)

\* k += direction * step; k = k < 0 ? 0 : k > trials ? trials : k
BinomNextK(k, direction, step, trials) ==
    IF k.t # "num" THEN NaN
    ELSE IF direction = 0 THEN (IF step.exp >= InfExp THEN NaN ELSE k)
    ELSE IF step.exp > ShiftLimit THEN (IF direction < 0 THEN NumInt(0) ELSE trials)
    ELSE LET moved == NumInt(IntOf(k) + direction * 2 ^ step.exp)
         IN  IF Lt(moved, NumInt(0)) THEN NumInt(0)
             ELSE IF Gt(moved, trials) THEN trials ELSE moved

\* lastDiff * diff < 0 sets decStep; the step grows until then and shrinks after
SearchDecStep(decStep, lastSign, sign) == decStep \/ lastSign * sign < 0
SearchStep(decStep, step) == IF decStep THEN StepDec(step) ELSE StepInc(step)

BinomInvEnter ==
    /\ fn = "binom.inv"
    /\ pc = "call"
    /\ LET errors == BinomInvErrors(args)
       IN  IF Len(errors) > 0
           THEN /\ pc' = "threw"
                /\ ret' = Error(errors)
                /\ loc' = loc
           ELSE \E k \in {BinomInvGuess(args)} :
                \E dist \in {BinomDist(k, args.trials, args.successProb, TRUE)} :
                   IF dist.kind = "error"
                   THEN /\ pc' = "threw"
                        /\ ret' = dist
                        /\ loc' = loc
                   ELSE /\ pc' = "loop"
                        /\ ret' = ret
                        /\ loc' = [k |-> k, diff |-> RatSub(RatOfNum(args.cumulativeProb), dist.value),
                                   step |-> searchStep0, decStep |-> FALSE, direction |-> 1,
                                   lastDiff |-> Rat(0, 1)]
    /\ UNCHANGED <<fn, args, sub>>

\* one pass of while (diff > 0 || Math.abs(step) !== 1)
BinomInvPass ==
    /\ fn = "binom.inv"
    /\ pc = "loop"
    /\ RatSign(loc.diff) > 0 \/ StepNotOne(loc.step)
    /\ \E direction \in {RatSign(loc.diff)} :
       \E decStep \in {SearchDecStep(loc.decStep, RatSign(loc.lastDiff), RatSign(loc.diff))} :
       \E step \in {SearchStep(decStep, loc.step)} :
       \E k \in {BinomNextK(loc.k, direction, step, args.trials)} :
       \E dist \in {BinomDist(k, args.trials, args.successProb, TRUE)} :
          IF dist.kind = "error"
          THEN /\ pc' = "threw"
               /\ ret' = dist
               /\ loc' = [loc EXCEPT !.k = k, !.step = step, !.decStep = decStep,
                                      !.direction = direction, !.lastDiff = loc.diff]
          ELSE \E diff \in {RatSub(RatOfNum(args.cumulativeProb), dist.value)} :
               /\ loc' = [k |-> k, diff |-> diff, step |-> step, decStep |-> decStep,
                          direction |-> direction, lastDiff |-> loc.diff]
               /\ IF diff = loc.diff
                  THEN pc' = "done" /\ ret' = Value(k)
                  ELSE pc' = "loop" /\ ret' = ret
    /\ UNCHANGED <<fn, args, sub>>

\* the loop condition is false: return Math.floor(k)
BinomInvReturn ==
    /\ fn = "binom.inv"
    /\ pc = "loop"
    /\ ~(RatSign(loc.diff) > 0 \/ StepNotOne(loc.step))
    /\ pc' = "done"
    /\ ret' = Value(loc.k)
    /\ UNCHANGED <<fn, args, loc, sub>>

(***************************************************************************)
(* poisson.dist and poisson.inv, on fixed-point reals.                     *)
(***************************************************************************)
Infinity == [t |-> "inf", q |-> 1]
ROfNum(x) == IF x.t = "num" THEN RDivInt(RInt(x.q), Unit) ELSE RNaN
RAddN(a, b) == Apply2(LAMBDA x, y : IF IsNaN(x) \/ IsNaN(y) THEN RNaN ELSE RAdd(x, y), a, b)
RSubN(a, b) == Apply2(LAMBDA x, y : IF IsNaN(x) \/ IsNaN(y) THEN RNaN ELSE RSub(x, y), a, b)
\* a stall test that never fires
RSame_Never(a, b) == FALSE
\* a === b on doubles: NaN equals nothing
RSame(a, b) == Apply2(LAMBDA x, y : ~IsNaN(x) /\ ~IsNaN(y) /\ x = y, a, b)

\* Math.exp(-1 / Unit)
ExpNegUnit == RLit(1, 0, <<9512, 2942, 4500, 7140>>)
\* product * x ^ e by repeated squaring
RECURSIVE RPowFrom(_, _, _)
RPowFrom(product, x, e) ==
    IF e = 0 THEN product
    ELSE Apply2(LAMBDA p, y : RPowFrom(p, y, e \div 2),
                IF e % 2 = 1 THEN RMul(product, x) ELSE product, RMul(x, x))

RPow(x, e) == RPowFrom(ROne, x, e)

\* avgSuccesses ^ successes / successes!, the exponential of
\* successes * Math.log(avgSuccesses) - lnGamma(successes + 1)
RECURSIVE PowOverFactorialFrom(_, _, _, _)
PowOverFactorialFrom(product, mu, i, successes) ==
    IF i > successes THEN product
    ELSE Apply2(LAMBDA p, j : PowOverFactorialFrom(p, mu, j, successes),
                RDivInt(RMul(product, mu), i), i + 1)

PowOverFactorial(mu, successes) == PowOverFactorialFrom(ROne, mu, 1, successes)

\* poissonDistCalc: Math.log(0) is -Infinity, and 0 * -Infinity is NaN
PoissonDistCalc(successes, avgSuccesses) ==
    IF isNaN(avgSuccesses) THEN RNaN
    ELSE IF avgSuccesses.q = 0 THEN (IF successes = 0 THEN RNaN ELSE RZero)
    ELSE RMul(RPow(ExpNegUnit, avgSuccesses.q), PowOverFactorial(ROfNum(avgSuccesses), successes))

\* for (successes; successes >= 0; successes--) total += poissonDistCalc(...)
RECURSIVE PoissonCumulative(_, _, _)
PoissonCumulative(total, successes, avgSuccesses) ==
    IF successes < 0 THEN total
    ELSE Apply2(LAMBDA sum, next : PoissonCumulative(sum, next, avgSuccesses),
                RAddN(total, PoissonDistCalc(successes, avgSuccesses)), successes - 1)

AlmostOne == RLit(1, 0, <<9999, 9999, 9999, 9999>>)

PoissonDistErrors(successes, avgSuccesses) ==
    (IF FracPositive(successes) THEN <<"The number of successes must be an integer">> ELSE <<>>)
    \o (IF Lt(successes, NumInt(0)) THEN <<"The number of successes must be a positive integer">> ELSE <<>>)
    \o (IF Lt(avgSuccesses, NumInt(0)) THEN <<"The average number of successes must be a positive number">> ELSE <<>>)

\* poisson.dist(successes, avgSuccesses, cumulative) for successes a number or NaN
PoissonDist(successes, avgSuccesses, cumulative) ==
    LET errors == PoissonDistErrors(successes, avgSuccesses)
        Coerce(total) == Apply1(LAMBDA sum : IF RSame(sum, AlmostOne) THEN ROne ELSE sum, total)
    IN  IF Len(errors) > 0 THEN Error(errors)
        ELSE IF ~cumulative
             THEN Value(IF isNaN(successes) THEN RNaN
                        ELSE PoissonDistCalc(IntOf(successes), avgSuccesses))
             ELSE Value(IF isNaN(successes) THEN RZero
                        ELSE Coerce(PoissonCumulative(RZero, IntOf(successes), avgSuccesses)))

PoissonInvErrors(a) ==
    (IF isNaN(a.cumulativeProb) \/ Lt(a.cumulativeProb, NumInt(0)) \/ Gt(a.cumulativeProb, NumInt(1))
     THEN <<"poisson.inv: the cumulative probability must be a number between 0 and 1">> ELSE <<>>)
    \o (IF isNaN(a.avgSuccesses) \/ Lt(a.avgSuccesses, NumInt(0))
        THEN <<"poisson.inv: the trials must be a number greater than 0">> ELSE <<>>)

\* Math.round(avgSuccesses) - 1, + 1 or + 0
PoissonInvGuess(a) ==
    LET mean == (a.avgSuccesses.q + Unit \div 2) \div Unit
    IN  IF Lt(a.cumulativeProb, Half) THEN NumInt(mean - 1)
        ELSE IF Gt(a.cumulativeProb, Half) THEN NumInt(mean + 1)
        ELSE NumInt(mean)

\* k += direction * step; k = k < 0 ? 0 : k
PoissonNextK(k, direction, step) ==
    IF k.t = "nan" THEN NaN
    ELSE IF direction = 0 THEN (IF step.exp >= InfExp THEN NaN ELSE k)
    ELSE IF k.t = "inf" \/ step.exp > ShiftLimit
         THEN (IF direction < 0 /\ (k.t = "num" \/ step.exp >= InfExp) THEN
                  (IF k.t = "inf" /\ step.exp >= InfExp THEN NaN ELSE NumInt(0))
               ELSE Infinity)
    ELSE LET moved == NumInt(IntOf(k) + direction * 2 ^ step.exp)
         IN  IF Lt(moved, NumInt(0)) THEN NumInt(0) ELSE moved

PoissonInvEnter ==
    /\ fn = "poisson.inv"
    /\ pc = "call"
    /\ LET errors == PoissonInvErrors(args)
       IN  IF Len(errors) > 0
           THEN /\ pc' = "threw"
                /\ ret' = Error(errors)
                /\ loc' = loc
           ELSE IF ~RLt(ROfNum(args.cumulativeProb), AlmostOne)
           THEN /\ pc' = "done"
                /\ ret' = Value(Infinity)
                /\ loc' = loc
           ELSE \E k \in {PoissonInvGuess(args)} :
                \E dist \in {PoissonDist(k, args.avgSuccesses, TRUE)} :
                   IF dist.kind = "error"
                   THEN /\ pc' = "threw"
                        /\ ret' = dist
                        /\ loc' = loc
                   ELSE /\ pc' = "loop"
                        /\ ret' = ret
                        /\ loc' = [k |-> k, diff |-> RSubN(ROfNum(args.cumulativeProb), dist.value),
                                   step |-> searchStep0, decStep |-> FALSE, direction |-> 1,
                                   lastDiff |-> RZero]
    /\ UNCHANGED <<fn, args, sub>>

\* one pass of while (diff > 0 || Math.abs(step) !== 1); the cumulative loop of
\* poisson.dist does not end when k is Infinity
PoissonInvPass ==
    /\ fn = "poisson.inv"
    /\ pc = "loop"
    /\ RSign(loc.diff) > 0 \/ StepNotOne(loc.step)
    /\ \E direction \in {RSign(loc.diff)} :
       \E decStep \in {SearchDecStep(loc.decStep, RSign(loc.lastDiff), RSign(loc.diff))} :
       \E step \in {SearchStep(decStep, loc.step)} :
       \E k \in {PoissonNextK(loc.k, direction, step)} :
          IF k.t = "inf"
          THEN /\ pc' = "diverged"
               /\ ret' = ret
               /\ loc' = [loc EXCEPT !.k = k, !.step = step, !.decStep = decStep,
                                      !.direction = direction, !.lastDiff = loc.diff]
          ELSE \E dist \in {PoissonDist(k, args.avgSuccesses, TRUE)} :
               \E diff \in {RSubN(ROfNum(args.cumulativeProb), dist.value)} :
               /\ loc' = [k |-> k, diff |-> diff, step |-> step, decStep |-> decStep,
                          direction |-> direction, lastDiff |-> loc.diff]
               /\ IF RSame(diff, loc.diff)
                  THEN pc' = "done" /\ ret' = Value(k)
                  ELSE pc' = "loop" /\ ret' = ret
    /\ UNCHANGED <<fn, args, sub>>

PoissonInvReturn ==
    /\ fn = "poisson.inv"
    /\ pc = "loop"
    /\ ~(RSign(loc.diff) > 0 \/ StepNotOne(loc.step))
    /\ pc' = "done"
    /\ ret' = Value(loc.k)
    /\ UNCHANGED <<fn, args, loc, sub>>

\* the arguments the searches are called with
MaxTrials == 4
SearchProbs == {Num(0), Num(6), Num(10), Num(14), Num(19), Num(20), Num(-1), Num(21), NaN}
SearchTrials == {NumInt(n) : n \in 0..MaxTrials} \cup {Num(Unit + Unit \div 2), NumInt(-1), NaN}
SuccessProbs == {Num(0), Num(5), Num(10), Num(15), Num(20), Num(25), NaN}
SearchRates == {Num(0), Num(10), Num(20), Num(40), Num(50), Num(-10), NaN}

InitSearch ==
    /\ fn \in {"binom.inv", "poisson.inv"}
    /\ IF fn = "binom.inv"
       THEN args \in [cumulativeProb : SearchProbs, trials : SearchTrials, successProb : SuccessProbs]
       ELSE args \in [cumulativeProb : SearchProbs, avgSuccesses : SearchRates]
    /\ pc = "call"
    /\ loc = NoLoc
    /\ sub = NoSub
    /\ ret = NoRet

NextSearch ==
    \/ BinomInvEnter
    \/ BinomInvPass
    \/ BinomInvReturn
    \/ PoissonInvEnter
    \/ PoissonInvPass
    \/ PoissonInvReturn

SpecSearch == InitSearch /\ [][NextSearch]_vars
SpecSearchFair == SpecSearch /\ WF_vars(NextSearch)

(***************************************************************************)
(* The capped loops, with the values they compute left open: each pass     *)
(* draws the outcome of the error test freely.  loc.passes counts the      *)
(* passes of the loop body, loc.terms the continued-fraction terms d_n     *)
(* that lnBetaIncomplete has used.                                         *)
(***************************************************************************)
fractionMaxIter == 50
SeriesLoops == {"lnGammaIncomplete", "norm.dist"}
SolverLoops == {"norm.inv", "t.inv", "chisq.inv", "binom.invp", "poisson.invmu"}

\* do { ...; n++; } while (error test && n < maxIter), n = 1 before the loop
SeriesLoopPass ==
    /\ fn \in SeriesLoops
    /\ pc = "loop"
    /\ \E exceeds \in BOOLEAN :
          /\ loc' = [loc EXCEPT !.n = loc.n + 1, !.passes = loc.passes + 1, !.exceeds = exceeds]
          /\ pc' = IF LoopGoesOn(exceeds, loc.n + 1, seriesMaxIter) THEN "loop" ELSE "done"
    /\ UNCHANGED <<fn, args, sub, ret>>

\* while (error test && n < maxIter) { d_n for odd n; n++; d_n for even n; n++; }
FractionLoopPass ==
    /\ fn = "lnBetaIncomplete"
    /\ pc = "loop"
    /\ \E exceeds \in BOOLEAN :
          IF LoopGoesOn(exceeds, loc.n, fractionMaxIter)
          THEN /\ loc' = [loc EXCEPT !.n = loc.n + 2, !.passes = loc.passes + 1,
                                     !.terms = loc.terms + 2, !.exceeds = exceeds]
               /\ pc' = "loop"
          ELSE /\ loc' = [loc EXCEPT !.exceeds = exceeds]
               /\ pc' = "done"
    /\ UNCHANGED <<fn, args, sub, ret>>

\* do { diff = prob - dist(...); ...; iter++; } while (|diff| > error && iter < maxIter);
\* the distribution evaluated in the pass may raise its own error
SolverLoopPass ==
    /\ fn \in SolverLoops
    /\ pc = "loop"
    /\ \E outcome \in {"exceeds", "within", "throws"} :
          IF outcome = "throws"
          THEN /\ loc' = loc
               /\ pc' = "threw"
          ELSE /\ loc' = [loc EXCEPT !.iter = loc.iter + 1, !.passes = loc.passes + 1,
                                     !.exceeds = (outcome = "exceeds")]
               /\ pc' = IF LoopGoesOn(outcome = "exceeds", loc.iter + 1, maxIter)
                        THEN "loop" ELSE "done"
    /\ UNCHANGED <<fn, args, sub, ret>>

InitLoops ==
    /\ fn \in SeriesLoops \cup {"lnBetaIncomplete"} \cup SolverLoops
    /\ args = NoLoc
    /\ pc = "loop"
    /\ loc = IF fn \in SolverLoops
             THEN [iter |-> 0, passes |-> 0, exceeds |-> TRUE]
             ELSE IF fn = "lnBetaIncomplete"
             THEN [n |-> 1, passes |-> 0, terms |-> 0, exceeds |-> TRUE]
             ELSE [n |-> 1, passes |-> 0, exceeds |-> TRUE]
    /\ sub = NoSub
    /\ ret = NoRet

NextLoops ==
    \/ SeriesLoopPass
    \/ FractionLoopPass
    \/ SolverLoopPass

SpecLoops == InitLoops /\ [][NextLoops]_vars

(***************************************************************************)
(* Calls of the public functions and of the special functions, followed    *)
(* through their argument checks and the calls they make.  Where a call    *)
(* goes on to a capped search or a series, the number it comes back with   *)
(* is left open: SomeNumber.                                               *)
(***************************************************************************)
SomeNumber == [t |-> "some", q |-> 0]
\* 1 - x, x / 2 and x + n on numbers: NaN and undefined give NaN
OneMinus(x) == IF x.t = "num" THEN Num(Unit - x.q) ELSE NaN
HalfOf(x) == IF x.t = "num" THEN Num(x.q \div 2) ELSE NaN
AddInt(x, n) == IF x.t = "num" THEN Num(x.q + n * Unit) ELSE NaN

\* type = typeof type === "undefined" ? 2 : typeof type === "string" ? type.toLowerCase() : type
\* (the numbers 1, 2, 3 are written "1", "2", "3")
ToLowerCase(s) == IF s = "Two" THEN "two" ELSE IF s = "Exact" THEN "exact" ELSE s
SideOf(type) == IF type = "undefined" THEN "2" ELSE ToLowerCase(type)
IsLowerSide(type) == type \in {"1", "lower"}
IsTwoSide(type) == type \in {"2", "two"}
IsUpperSide(type) == type \in {"3", "upper"}
Interval(lower, upper) == [lower |-> lower, upper |-> upper]
\* what a call hands to its caller: an error goes through, a value goes to rest
AndThen(r, rest) == IF r.kind = "error" THEN r ELSE rest

\* lnGamma(z): Math.log(0) is -Infinity, so z = 0 gives +Infinity
LnGamma(z) ==
    IF isNaN(z) THEN Error(<<"lnGamma: the argument of this function must be a positive number">>)
    ELSE IF Lt(z, NumInt(0)) THEN Error(<<"lnGamma: the argument of this function must be positive">>)
    ELSE Value(IF z.q = 0 THEN Infinity ELSE SomeNumber)

LnBetaIncompleteErrors(x, a, b) ==
    (IF isNaN(x) THEN <<"lnBetaIncomplete: the parameter x must be a number">> ELSE <<>>)
    \o (IF ~isNaN(x) /\ (Gt(x, NumInt(1)) \/ Lt(x, NumInt(0)))
        THEN <<"lnBetaIncomplete: the parameter x must be between 0 and 1">> ELSE <<>>)
    \o (IF isNaN(a) THEN <<"lnBetaIncomplete: the parameter a must be a number">> ELSE <<>>)
    \o (IF isNaN(b) THEN <<"lnBetaIncomplete: the parameter b must be a number">> ELSE <<>>)

\* the errors combinations collects; no statement of the function reads them
CombinationsErrors(n, k) ==
    (IF isNaN(n) THEN <<"combinations: n must be a number">> ELSE <<>>)
    \o (IF isNaN(k) THEN <<"combinations: k must be a number">> ELSE <<>>)
    \o (IF Gt(k, n) THEN <<"combinations: n must be greater than or equal to k">> ELSE <<>>)

\* for (numerator = n; numerator > numeratorProductEnd; numerator--) on integers
RECURSIVE CombinationsTerms(_, _, _, _)
CombinationsTerms(combinations, numerator, numeratorProductEnd, denominator) ==
    IF numerator > numeratorProductEnd
    THEN Apply1(LAMBDA next : CombinationsTerms(next, numerator - 1, numeratorProductEnd, denominator - 1),
                RatMul(combinations, Rat(numerator, denominator)))
    ELSE combinations

\* combinations(n, k) for n and k integers, NaN or left out: with NaN every
\* comparison is false, so the else branch is taken and the loop is not entered
Combinations_DenominatorK(n, k) ==
    IF isNaN(n) \/ isNaN(k) THEN Value(Rat(1, 1))
    ELSE Value(CombinationsTerms(Rat(1, 1), IntOf(n), Max2(IntOf(k), IntOf(n) - IntOf(k)), IntOf(k)))
Combinations(n, k) ==
    IF isNaN(n) \/ isNaN(k) THEN Value(Rat(1, 1))
    ELSE LET kMore == IntOf(k) > IntOf(n) - IntOf(k)
             numeratorProductEnd == IF kMore THEN IntOf(k) ELSE IntOf(n) - IntOf(k)
             denominator == IF kMore THEN IntOf(n) - IntOf(k) ELSE IntOf(k)
         IN  Value(CombinationsTerms(Rat(1, 1), IntOf(n), numeratorProductEnd, denominator))

BinomInvpErrors(cumulativeProb, successes, trials) ==
    (IF isNaN(cumulativeProb) \/ Gt(cumulativeProb, NumInt(1)) \/ Lt(cumulativeProb, NumInt(0))
     THEN <<"binom.invprob: the cumulative probability must be a number between 0 and 1">> ELSE <<>>)
    \o (IF isNaN(trials) \/ FracPositive(trials) \/ Lt(trials, NumInt(0))
        THEN <<"binom.invprob: the trials must be an integer greater than 0">> ELSE <<>>)
    \o (IF isNaN(successes) \/ FracPositive(successes) \/ Gt(successes, trials) \/ Lt(successes, NumInt(0))
        THEN <<"binom.invprob: the successes must be an integer greater than 0 and less than the number of trials">>
        ELSE <<>>)

\* binom.invp: the checks, then center = binom.dist(successes, trials, 0.5, true);
\* the guesses p of the search stay in [0, 1], so its binom.dist calls raise nothing
BinomInvp(cumulativeProb, successes, trials) ==
    LET errors == BinomInvpErrors(cumulativeProb, successes, trials)
    IN  IF Len(errors) > 0 THEN Error(errors)
        ELSE LET raised == BinomDistErrors(successes, trials, Half)
             IN  IF Len(raised) > 0 THEN Error(raised) ELSE Value(SomeNumber)

PoissonInvmuErrors(cumulativeProb, successes) ==
    (IF isNaN(cumulativeProb) \/ Gt(cumulativeProb, NumInt(1)) \/ Lt(cumulativeProb, NumInt(0))
     THEN <<"poisson.invprob: the cumulative probability must be a number between 0 and 1">> ELSE <<>>)
    \o (IF isNaN(successes) \/ FracPositive(successes) \/ Lt(successes, NumInt(0))
        THEN <<"poisson.invprob: the successes must be an integer greater than 0 and less than the number of trials">>
        ELSE <<>>)

\* mu = successes + 1 or successes - 1
PoissonInvmuGuess(cumulativeProb, successes) ==
    IF Gt(cumulativeProb, Half) THEN AddInt(successes, 1) ELSE AddInt(successes, -1)

\* poisson.invmu: the checks, then the first poisson.dist(successes, mu, true);
\* later guesses are kept at 0 or above, so their poisson.dist calls raise nothing
PoissonInvmu(cumulativeProb, successes) ==
    LET errors == PoissonInvmuErrors(cumulativeProb, successes)
        first == PoissonDistErrors(successes, PoissonInvmuGuess(cumulativeProb, successes))
    IN  IF Len(errors) > 0 THEN Error(errors)
        ELSE IF Len(first) > 0 THEN Error(first)
        ELSE Value(SomeNumber)

\* norm.inv(prob, 0, 1): its norm.dist calls are made on numbers and raise nothing
NormInv(prob) ==
    LET errors == NormInvErrors([prob |-> ROfNum(prob), mean |-> 0, stdev |-> 1])
    IN  IF Len(errors) > 0 THEN Error(errors) ELSE Value(SomeNumber)

TDistErrors(tValue, df) ==
    (IF isNaN(tValue) THEN <<"t.dist: The t value must be a number">> ELSE <<>>)
    \o (IF isNaN(df) THEN <<"t.dist: The degrees of freedom must be a number">> ELSE <<>>)
    \o (IF Lt(df, NumInt(0)) THEN <<"t.dist: The degrees of freedom must be positive">> ELSE <<>>)

TInvErrors(prob, df) ==
    (IF isNaN(prob) THEN <<"t.inv: the probability is not a number">> ELSE <<>>)
    \o (IF Gt(prob, NumInt(1)) \/ Lt(prob, NumInt(0))
        THEN <<"t.inv: the probability should be between 0 and 1 including the bounds">> ELSE <<>>)
    \o (IF isNaN(df) THEN <<"t.inv: the degrees of freedom is not a number">> ELSE <<>>)
    \o (IF ~isNaN(df) /\ Lt(df, NumInt(1))
        THEN <<"t.inv: the degrees of freedom should be a positive number greater than or equal to 1">>
        ELSE <<>>)

TInvGuess(prob) == IF Lt(prob, Half) THEN Num(-(Unit \div 2)) ELSE IF Gt(prob, Half) THEN Half ELSE NumInt(0)

\* t.inv: the checks, then the capped search; every guess t is a number, so the
\* checks of t.dist(t, df, true) come out as they do for the first guess
TInv(prob, df) ==
    LET errors == TInvErrors(prob, df)
        first == TDistErrors(TInvGuess(prob), df)
    IN  IF Len(errors) > 0 THEN Error(errors)
        ELSE IF Len(first) > 0 THEN Error(first)
        ELSE Value(SomeNumber)

ChisqDistErrors(chiStat, df) ==
    (IF isNaN(chiStat) THEN <<"chisq.dist: The chi-square statistic must be a number">> ELSE <<>>)
    \o (IF ~isNaN(chiStat) /\ Lt(chiStat, NumInt(0))
        THEN <<"chisq.dist: The chi-square statistic must be greater than or equal to 0">> ELSE <<>>)
    \o (IF isNaN(df) THEN <<"chisq.dist: The degrees of freedom must be a number">> ELSE <<>>)
    \o (IF ~isNaN(df) /\ Lt(df, NumInt(0)) THEN <<"chisq.dist: The degrees of freedome must be positive">> ELSE <<>>)

ChisqInvErrors(prob, df) ==
    (IF isNaN(prob) THEN <<"chisq.inv: the probability is not a number">> ELSE <<>>)
    \o (IF Gt(prob, NumInt(1)) \/ Lt(prob, NumInt(0))
        THEN <<"chisq.inv: the probability should be between 0 and 1 including the bounds">> ELSE <<>>)
    \o (IF isNaN(df) THEN <<"chisq.inv: the degrees of freedom is not a number">> ELSE <<>>)
    \o (IF ~isNaN(df) /\ Lt(df, NumInt(1))
        THEN <<"chisq.inv: the degrees of freedom should be a positive number greater than or equal to 1">>
        ELSE <<>>)

\* chisq.inv: the checks, then the capped search.  A later guess of the search
\* can fall below 0, where chisq.dist raises its error; which of the two happens
\* is left open
ChisqInvOutcomes(prob, df) ==
    LET errors == ChisqInvErrors(prob, df)
    IN  IF Len(errors) > 0 THEN {Error(errors)}
        ELSE {Value(SomeNumber),
              Error(<<"chisq.dist: The chi-square statistic must be greater than or equal to 0">>)}

\* binom.conf: a method given as the fourth argument is moved out of type
BinomConfMethod(type, method) ==
    IF method # "undefined" THEN ToLowerCase(method)
    ELSE IF type \in {"estimate", "exact"} THEN type
    ELSE "undefined"
BinomConfType(type, method) ==
    SideOf(IF method = "undefined" /\ type \in {"estimate", "exact"} THEN "undefined" ELSE type)

BinomConfErrors(alpha, successes, trials, method) ==
    (IF isNaN(alpha) \/ Lt(alpha, NumInt(0)) \/ Gt(alpha, NumInt(1))
     THEN <<"binom.conf: alpha must be a number between 0 and 1">> ELSE <<>>)
    \o (IF isNaN(trials) \/ Lt(trials, NumInt(0))
        THEN <<"binom.conf: the trials must be a number that is greater than 0">> ELSE <<>>)
    \o (IF isNaN(successes) \/ Lt(successes, NumInt(0)) \/ Gt(successes, trials)
        THEN <<"binom.conf: the successes must be a number that is between 0 and the number of trials">>
        ELSE <<>>)
    \o (IF method \notin {"undefined", "estimate", "exact"}
        THEN <<"binom.conf: if set, the method must be exact or estimate">> ELSE <<>>)

(***************************************************************************)
(* The doubles of n * p * q >= 5 in binom.conf.  A positive double is the  *)
(* record [m, e]: m its SignificandBits bits, the lowest first and the     *)
(* highest a 1, and e the exponent of the lowest bit, so that the value is *)
(* m * 2^e; zero is DblZero.  Each operation rounds the exact result to    *)
(* the nearest double, a tie to the even significand, as IEEE 754 and with *)
(* it JavaScript prescribe for / * and -.                                  *)
(***************************************************************************)
SignificandBits == 52 + 1
\* the arithmetic is done on digits of LimbBits bits, the quotient of a
\* division is taken to QuotientChunks digits of ChunkBits bits after the point
LimbBits == 12 + 1
SignificandLimbs == 4 + 1
ChunkBits == 2 ^ 3
QuotientChunks == 2 ^ 3
DblZero == [m |-> <<>>, e |-> 0]

\* the position of the highest 1, or 0
TopBit(bits) ==
    IF \E i \in 1..Len(bits) : bits[i] = 1
    THEN CHOOSE i \in 1..Len(bits) : bits[i] = 1 /\ \A k \in (i + 1)..Len(bits) : bits[k] = 0
    ELSE 0

\* bits + 1, within the length of bits
IncBits(bits) ==
    Seq1([i \in 1..Len(bits) |-> IF \A k \in 1..(i - 1) : bits[k] = 1 THEN 1 - bits[i] ELSE bits[i]],
         Len(bits))

\* the double nearest to bits * 2^e, h the highest 1 of bits; sticky says that
\* the exact value is a little more than bits * 2^e
DblRoundAt(bits, h, e, sticky) ==
    IF h = 0 THEN DblZero
    ELSE IF h <= SignificandBits
    THEN [m |-> Seq1([i \in 1..SignificandBits |->
                        IF i > SignificandBits - h THEN bits[i - (SignificandBits - h)] ELSE 0],
                     SignificandBits),
          e |-> e - (SignificandBits - h)]
    ELSE LET d == h - SignificandBits
             mant == Seq1([i \in 1..SignificandBits |-> bits[i + d]], SignificandBits)
             more == sticky \/ \E i \in 1..(d - 1) : bits[i] = 1
             up == bits[d] = 1 /\ (more \/ bits[d + 1] = 1)
         IN  IF ~up THEN [m |-> mant, e |-> e + d]
             ELSE IF \A i \in (d + 1)..h : bits[i] = 1
             THEN [m |-> Seq1([i \in 1..SignificandBits |-> IF i = SignificandBits THEN 1 ELSE 0],
                              SignificandBits),
                   e |-> e + d + 1]
             ELSE [m |-> IncBits(mant), e |-> e + d]

DblRound(bits, e, sticky) ==
    Apply1(LAMBDA b : Apply1(LAMBDA h : DblRoundAt(b, h, e, sticky), TopBit(b)), bits)

\* the bits of a natural number, lowest first
RECURSIVE IntBits(_)
IntBits(n) == IF n = 0 THEN <<>> ELSE <<n % 2>> \o IntBits(n \div 2)

\* the number the bits lo..hi stand for, bits past the end being 0
RECURSIVE BitsValue(_, _, _)
BitsValue(bits, lo, hi) ==
    IF lo > hi THEN 0
    ELSE (IF lo <= Len(bits) THEN bits[lo] ELSE 0) + 2 * BitsValue(bits, lo + 1, hi)

\* n digits of width bits each, lowest first, to bits and back
BitsOfDigits(digits, width) ==
    Seq1([i \in 1..(Len(digits) * width) |->
            (digits[((i - 1) \div width) + 1] \div (2 ^ ((i - 1) % width))) % 2],
         Len(digits) * width)
DigitsOfBits(bits, width, n) ==
    Seq1([k \in 1..n |-> BitsValue(bits, (k - 1) * width + 1, k * width)], n)

\* long division: k more digits of the quotient r / b, r < b, put below acc
RECURSIVE QuotientFrom(_, _, _, _)
QuotientFrom(r, b, k, acc) ==
    IF k = 0 THEN [digits |-> acc, sticky |-> r # 0]
    ELSE Apply2(LAMBDA t, a : QuotientFrom(t % b, b, k - 1, <<t \div b>> \o a),
                r * (2 ^ ChunkBits), acc)

\* a / b for integers a >= 0 and 0 < b < 2 ^ 10, both of them doubles
DblDiv(a, b) ==
    IF a = 0 THEN DblZero
    ELSE Apply1(LAMBDA q : DblRound(BitsOfDigits(q.digits, ChunkBits) \o IntBits(a \div b),
                                    -(QuotientChunks * ChunkBits), q.sticky),
                QuotientFrom(a % b, b, QuotientChunks, <<>>))

\* the digits of the column sums c, carries propagated upward
RECURSIVE CarryDigits(_, _, _, _)
CarryDigits(c, j, carry, acc) ==
    IF j > Len(c) THEN acc
    ELSE Apply2(LAMBDA t, a : CarryDigits(c, j + 1, t \div (2 ^ LimbBits), Append(a, t % (2 ^ LimbBits))),
                c[j] + carry, acc)

\* the bits of the product of two significands
ProductBits(x, y) ==
    Apply2(LAMBDA a, b :
               Apply1(LAMBDA c : BitsOfDigits(CarryDigits(c, 1, 0, <<>>), LimbBits),
                      Seq1([j \in 1..(2 * SignificandLimbs) |->
                              ColSum(a, b, j, Max2(1, j - SignificandLimbs + 1),
                                     Min2(SignificandLimbs, j))],
                           2 * SignificandLimbs)),
           DigitsOfBits(x, LimbBits, SignificandLimbs), DigitsOfBits(y, LimbBits, SignificandLimbs))

\* x * y
DblMul(x, y) ==
    Apply2(LAMBDA a, b :
               IF a = DblZero \/ b = DblZero THEN DblZero
               ELSE DblRound(ProductBits(a.m, b.m), a.e + b.e, FALSE),
           x, y)

\* 1 - p for 0 <= p <= 1: with w = -p.e, 2^w - m is the complement of m in w
\* bits, plus 1
DblOneMinus(p) ==
    Apply1(LAMBDA x :
               IF x = DblZero THEN DblDiv(1, 1)
               ELSE IF x.e > -SignificandBits THEN DblZero
               ELSE DblRound(IncBits(Seq1([i \in 1..(-x.e) |->
                                             IF i <= SignificandBits THEN 1 - x.m[i] ELSE 1], -x.e)),
                             x.e, FALSE),
           p)

\* x >= y
DblGe(x, y) ==
    Apply2(LAMBDA a, b :
               IF b = DblZero THEN TRUE
               ELSE IF a = DblZero THEN FALSE
               ELSE IF a.e # b.e THEN a.e > b.e
               ELSE ~\E i \in 1..SignificandBits :
                        a.m[i] < b.m[i] /\ \A k \in (i + 1)..SignificandBits : a.m[k] = b.m[k],
           x, y)

\* n * p * q >= 5 with p = successes / trials and q = 1 - p, in doubles; p is
\* NaN for 0 trials and the comparison false
NormalEstimateFits(successes, trials) ==
    /\ trials.q > 0
    /\ Apply2(LAMBDA n, p : DblGe(DblMul(DblMul(n, p), DblOneMinus(p)), DblDiv(5, 1)),
              DblDiv(trials.q, Unit), DblDiv(successes.q, trials.q))

\* p - conf and p + conf of the estimate: p = successes / trials is 0 / 0 = NaN
\* for 0 trials, which pass the checks
BinomConfEstimateBound(trials) == IF trials.q = 0 THEN NaN ELSE SomeNumber

BinomConfEstimate(alpha, trials, type) ==
    IF IsLowerSide(type)
    THEN AndThen(NormInv(OneMinus(alpha)), Value(Interval(NaN, BinomConfEstimateBound(trials))))
    ELSE IF IsTwoSide(type)
    THEN AndThen(NormInv(OneMinus(HalfOf(alpha))),
                 Value(Interval(BinomConfEstimateBound(trials), BinomConfEstimateBound(trials))))
    ELSE IF IsUpperSide(type)
    THEN AndThen(NormInv(OneMinus(alpha)), Value(Interval(BinomConfEstimateBound(trials), NaN)))
    ELSE Error(<<"binom.conf: The type must be a number between 1 - 3 or lower, two, or upper">>)

BinomConfExact(alpha, successes, trials, type) ==
    IF IsLowerSide(type)
    THEN AndThen(BinomInvp(alpha, successes, trials), Value(Interval(NaN, SomeNumber)))
    ELSE IF IsTwoSide(type)
    THEN AndThen(BinomInvp(OneMinus(HalfOf(alpha)), AddInt(successes, -1), trials),
                 AndThen(BinomInvp(HalfOf(alpha), successes, trials),
                         Value(Interval(SomeNumber, SomeNumber))))
    ELSE IF IsUpperSide(type)
    THEN AndThen(BinomInvp(OneMinus(alpha), AddInt(successes, -1), trials),
                 Value(Interval(SomeNumber, NaN)))
    ELSE Error(<<"binom.conf: The type must be a number between 1 - 3 or lower, two, or upper">>)

\* if (typeof method === "undefined") method = n * p * q >= 5 ? "estimate" : "exact"
BinomConfChosen(a) ==
    LET method == BinomConfMethod(a.type, a.method)
    IN  IF method # "undefined" THEN method
        ELSE IF NormalEstimateFits(a.successes, a.trials) THEN "estimate"
        ELSE "exact"

\* the interval of the method that was given or chosen
BinomConfInterval(a, method) ==
    IF method = "estimate"
    THEN BinomConfEstimate(a.alpha, a.trials, BinomConfType(a.type, a.method))
    ELSE BinomConfExact(a.alpha, a.successes, a.trials, BinomConfType(a.type, a.method))

BinomConf(a) ==
    LET errors == BinomConfErrors(a.alpha, a.successes, a.trials, BinomConfMethod(a.type, a.method))
    IN  IF Len(errors) > 0 THEN Error(errors)
        ELSE BinomConfInterval(a, BinomConfChosen(a))

PoissonConfErrors(alpha, successes) ==
    (IF isNaN(alpha) \/ Lt(alpha, NumInt(0)) \/ Gt(alpha, NumInt(1))
     THEN <<"poisson.conf: alpha must be a number between 0 and 1">> ELSE <<>>)
    \o (IF isNaN(successes) \/ Lt(successes, NumInt(0))
        THEN <<"poisson.conf: the successes must be a number that is between 0 and the number of trials">>
        ELSE <<>>)

PoissonConf(a) ==
    LET type == SideOf(a.type)
        errors == PoissonConfErrors(a.alpha, a.successes)
    IN  IF Len(errors) > 0 THEN Error(errors)
        ELSE IF IsLowerSide(type)
        THEN AndThen(PoissonInvmu(a.alpha, a.successes), Value(Interval(NaN, SomeNumber)))
        ELSE IF IsTwoSide(type)
        THEN AndThen(PoissonInvmu(OneMinus(HalfOf(a.alpha)), AddInt(a.successes, -1)),
                     AndThen(PoissonInvmu(HalfOf(a.alpha), a.successes),
                             Value(Interval(SomeNumber, SomeNumber))))
        ELSE IF IsUpperSide(type)
        THEN AndThen(PoissonInvmu(OneMinus(a.alpha), AddInt(a.successes, -1)),
                     Value(Interval(SomeNumber, NaN)))
        ELSE Error(<<"poisson.conf: The type must be a number between 1 - 3 or lower, two, or upper">>)

NormConfErrors(alpha, popStdev, sampleSize) ==
    (IF isNaN(alpha) THEN <<"norm.conf: the alpha value is not a number">> ELSE <<>>)
    \o (IF Gt(alpha, NumInt(1)) \/ Lt(alpha, NumInt(0))
        THEN <<"norm.conf: the alpha should be between 0 and 1 including the bounds">> ELSE <<>>)
    \o (IF isNaN(popStdev) THEN <<"norm.conf: the population standard is not a number">> ELSE <<>>)
    \o (IF ~isNaN(popStdev) /\ Lt(popStdev, NumInt(0))
        THEN <<"norm.conf: the population standard deviation should be positive">> ELSE <<>>)
    \o (IF isNaN(sampleSize) THEN <<"norm.conf: the sample size is not a number">> ELSE <<>>)
    \o (IF ~isNaN(sampleSize) /\ Lt(sampleSize, NumInt(0))
        THEN <<"norm.conf: the sample size should be positive">> ELSE <<>>)

NormConf(a) ==
    LET type == SideOf(a.type)
        errors == NormConfErrors(a.alpha, a.popStdev, a.sampleSize)
    IN  IF Len(errors) > 0 THEN Error(errors)
        ELSE IF IsLowerSide(type)
        THEN AndThen(NormInv(OneMinus(a.alpha)), Value(Interval(NaN, SomeNumber)))
        ELSE IF IsTwoSide(type)
        THEN AndThen(NormInv(OneMinus(HalfOf(a.alpha))), Value(Interval(SomeNumber, SomeNumber)))
        ELSE IF IsUpperSide(type)
        THEN AndThen(NormInv(OneMinus(a.alpha)), Value(Interval(SomeNumber, NaN)))
        ELSE Error(<<"norm.conf: The type must be a number between 1 - 3 or lower, two, or upper">>)

\* the errors t.conf collects; the function has no statement that raises them
TConfErrors(alpha, sampleStdev, sampleSize) ==
    (IF isNaN(alpha) THEN <<"t.conf: The alpha value must be a number">> ELSE <<>>)
    \o (IF ~isNaN(alpha) /\ (Gt(alpha, NumInt(1)) \/ Lt(alpha, NumInt(0)))
        THEN <<"t.conf: The alpha value must be between 0 and 1">> ELSE <<>>)
    \o (IF isNaN(sampleStdev) THEN <<"t.conf: The standard deviation must be a number">> ELSE <<>>)
    \o (IF isNaN(sampleSize) THEN <<"t.conf: The sample size must be a number">> ELSE <<>>)
    \o (IF ~isNaN(sampleSize) /\ Lt(sampleSize, NumInt(0))
        THEN <<"t.conf: The sample size must be a positive number">> ELSE <<>>)

\* df = sampleSize - 1, "same regardless of type"
TConfDf_SampleSize(sampleSize) == sampleSize
TConfDf(sampleSize) == AddInt(sampleSize, -1)

\* sampleMean + sign * conf with conf = t * sampleStdev / Math.sqrt(sampleSize)
\* and t the number t.inv(cumulativeProb, df) returned: the bound is kept as
\* the term it is computed from.  It is NaN when the mean or the standard
\* deviation is.
TConfBound(a, sign, cumulativeProb, df) ==
    IF isNaN(a.sampleMean) \/ isNaN(a.sampleStdev) THEN NaN
    ELSE [t |-> "bound", centre |-> a.sampleMean, sign |-> sign,
          stat |-> [fn |-> "t.inv", prob |-> cumulativeProb, df |-> df],
          scale |-> a.sampleStdev, root |-> a.sampleSize]

\* t.conf goes from its checks straight on to t.inv(cumulativeProb, sampleSize - 1)
TConf(a) ==
    LET type == SideOf(a.type)
        df == TConfDf(a.sampleSize)
        oneSided == OneMinus(a.alpha)
        twoSided == OneMinus(HalfOf(a.alpha))
    IN  IF IsLowerSide(type)
        THEN AndThen(TInv(oneSided, df), Value(Interval(NaN, TConfBound(a, 1, oneSided, df))))
        ELSE IF IsTwoSide(type)
        THEN AndThen(TInv(twoSided, df),
                     Value(Interval(TConfBound(a, -1, twoSided, df), TConfBound(a, 1, twoSided, df))))
        ELSE IF IsUpperSide(type)
        THEN AndThen(TInv(oneSided, df), Value(Interval(TConfBound(a, -1, oneSided, df), NaN)))
        ELSE Error(<<"t.conf: The type must be a number between 1 - 3 or lower, two, or upper">>)

ChisqConfErrors(alpha, sampleStdev, sampleSize) ==
    (IF isNaN(alpha) THEN <<"chisq.conf: The alpha value must be a number">> ELSE <<>>)
    \o (IF ~isNaN(alpha) /\ (Gt(alpha, NumInt(1)) \/ Lt(alpha, NumInt(0)))
        THEN <<"chisq.conf: The alpha value must be between 0 and 1">> ELSE <<>>)
    \o (IF isNaN(sampleStdev) THEN <<"chisq.conf: The standard deviation must be a number">> ELSE <<>>)
    \o (IF isNaN(sampleSize) THEN <<"chisq.conf: The sample size must be a number">> ELSE <<>>)
    \o (IF ~isNaN(sampleSize) /\ Lt(sampleSize, NumInt(0))
        THEN <<"chisq.conf: The sample size must be a positive number">> ELSE <<>>)
    \o (IF ~isNaN(sampleSize) /\ ~isInt(sampleSize)
        THEN <<"chisq.conf: The sample size must be an integer">> ELSE <<>>)

\* df = sampleSize - 1, "same regardless of type"
ChisqConfDf(sampleSize) == AddInt(sampleSize, -1)

\* (sampleSize - 1) * Math.pow(sampleStdev, 2) / chisq.inv(prob, df), kept as
\* the term it is computed from
ChisqConfBound(a, prob, df) ==
    [t |-> "ratio", scale |-> AddInt(a.sampleSize, -1), stdev |-> a.sampleStdev,
     stat |-> [fn |-> "chisq.inv", prob |-> prob, df |-> df]]

ChisqConfOutcomes(a) ==
    LET type == SideOf(a.type)
        df == ChisqConfDf(a.sampleSize)
        errors == ChisqConfErrors(a.alpha, a.sampleStdev, a.sampleSize)
        lowerBoundProb == IF IsTwoSide(type) THEN OneMinus(HalfOf(a.alpha)) ELSE OneMinus(a.alpha)
        upperBoundProb == IF IsTwoSide(type) THEN HalfOf(a.alpha) ELSE a.alpha
    IN  IF Len(errors) > 0 THEN {Error(errors)}
        ELSE IF IsLowerSide(type)
        THEN {AndThen(r, Value(Interval(NaN, ChisqConfBound(a, upperBoundProb, df)))) :
                 r \in ChisqInvOutcomes(upperBoundProb, df)}
        ELSE IF IsTwoSide(type)
        THEN {AndThen(r, AndThen(s, Value(Interval(ChisqConfBound(a, lowerBoundProb, df),
                                                   ChisqConfBound(a, upperBoundProb, df))))) :
                 r \in ChisqInvOutcomes(lowerBoundProb, df),
                 s \in ChisqInvOutcomes(upperBoundProb, df)}
        ELSE IF IsUpperSide(type)
        THEN {AndThen(r, Value(Interval(ChisqConfBound(a, lowerBoundProb, df), NaN))) :
                 r \in ChisqInvOutcomes(lowerBoundProb, df)}
        ELSE {Error(<<"chisq.conf: The type must be a number between 1 - 3 or lower, two, or upper">>)}

\* the argument checks of norm.dist: isNaN is the only test the standard
\* deviation is put to
NormDistErrors(x, mean, stdev) ==
    (IF isNaN(x) THEN <<"norm.dist: the x value is not a number">> ELSE <<>>)
    \o (IF isNaN(mean) THEN <<"norm.dist: the mean is not a number">> ELSE <<>>)
    \o (IF isNaN(stdev) THEN <<"norm.dist: the standard deviation is not a number">> ELSE <<>>)

\* norm.dist(x, mean, stdev, cumulative).  With stdev = 0 the quotient
\* (x - mean) / stdev is Infinity, -Infinity or NaN, the series adds Infinity
\* to -Infinity, and 1 / (stdev * Math.sqrt(2 * Math.PI)) is Infinity times 0
\* or times NaN: both branches end in NaN.  With any other stdev, negative
\* ones included, a number comes back.
NormDist(x, mean, stdev, cumulative) ==
    LET errors == NormDistErrors(x, mean, stdev)
    IN  IF Len(errors) > 0 THEN Error(errors)
        ELSE IF stdev.q = 0 THEN Value(NaN)
        ELSE Value(SomeNumber)
\* the argument checks of permutations: both integer tests read n, none reads
\* k, and nothing tests the sign of either
PermutationsErrors(n, k) ==
    (IF FracPositive(n)
     THEN <<"Permutation: The total number n from which k items are being chosen must be an integer">>
     ELSE <<>>)
    \o (IF FracPositive(n)
        THEN <<"Permutation: The number of k items to be chosen from n items must be an integer">>
        ELSE <<>>)
    \o (IF Gt(k, n) THEN <<"Permutation: n must be greater than or equal to k">> ELSE <<>>)

\* for (var i = n; i > (n - k); i--) product *= i, with i and the end of the
\* loop in multiples of 1 / Unit
RECURSIVE PermutationsLoop_OneShort(_, _, _)
PermutationsLoop_OneShort(product, i, end) ==
    IF i > end + Unit
    THEN Apply1(LAMBDA next : PermutationsLoop_OneShort(next, i - Unit, end), RatMul(product, Rat(i, Unit)))
    ELSE product
RECURSIVE PermutationsLoop(_, _, _)
PermutationsLoop(product, i, end) ==
    IF i > end
    THEN Apply1(LAMBDA next : PermutationsLoop(next, i - Unit, end), RatMul(product, Rat(i, Unit)))
    ELSE product

\* permutations(n, k), the name Permutations being one of the TLC module:
\* when n or k is no number the comparison i > (n - k) is false and the
\* product stays 1
PermutationsOf(n, k) ==
    LET errors == PermutationsErrors(n, k)
    IN  IF Len(errors) > 0 THEN Error(errors)
        ELSE IF n = NumInt(0) \/ k = NumInt(0) THEN Value(Rat(1, 1))
        ELSE IF isNaN(n) \/ isNaN(k) THEN Value(Rat(1, 1))
        ELSE Value(PermutationsLoop(Rat(1, 1), n.q, n.q - k.q))
\* chisq.dist(chiStat, df, cumulative).  The density is the quotient of the
\* formula for chiStat > 0, which Math.exp(lnGamma(0)) = Infinity makes 0 for
\* df = 0, and the constant 0 otherwise; the cumulative value is the
\* exponential of -Infinity at chiStat = 0 and NaN for df = 0.
ChisqDist(chiStat, df, cumulative) ==
    LET errors == ChisqDistErrors(chiStat, df)
    IN  IF Len(errors) > 0 THEN Error(errors)
        ELSE IF cumulative
             THEN Value(IF df.q = 0 THEN NaN ELSE IF chiStat.q = 0 THEN NumInt(0) ELSE SomeNumber)
        ELSE IF Gt(chiStat, NumInt(0))
             THEN Value(IF df.q = 0 THEN NumInt(0) ELSE SomeNumber)
             ELSE Value(NumInt(0))
\* the call ends: throw new Error(...) or return r
Returns(r) ==
    /\ pc' = IF r.kind = "error" THEN "threw" ELSE "done"
    /\ ret' = r
    /\ UNCHANGED <<fn, args, loc, sub>>

\* the checks passed: the body of the function starts
Computes ==
    /\ pc' = "compute"
    /\ UNCHANGED <<fn, args, loc, sub, ret>>

LnGammaCall ==
    /\ fn = "lnGamma" /\ pc = "call"
    /\ Returns(LnGamma(args.z))

\* lnBetaIncomplete up to if (errors.length > 0) throw
LnBetaIncompleteEnter ==
    /\ fn = "lnBetaIncomplete" /\ pc = "call"
    /\ LET errors == LnBetaIncompleteErrors(args.x, args.a, args.b)
       IN  IF Len(errors) > 0 THEN Returns(Error(errors)) ELSE Computes

\* the continued fraction (its loop is followed in SpecLoops) and the return
LnBetaIncompleteReturn ==
    /\ fn = "lnBetaIncomplete" /\ pc = "compute"
    /\ Returns(Value(SomeNumber))

CombinationsCall ==
    /\ fn = "combinations" /\ pc = "call"
    /\ Returns(Combinations(args.n, args.k))

\* binom.dist up to if (errors.length > 0) throw
BinomDistEnter ==
    /\ fn = "binom.dist" /\ pc = "call"
    /\ LET errors == BinomDistErrors(args.successes, args.trials, args.probability)
       IN  IF Len(errors) > 0 THEN Returns(Error(errors)) ELSE Computes

BinomDistReturn ==
    /\ fn = "binom.dist" /\ pc = "compute"
    /\ Returns(BinomDist(args.successes, args.trials, args.probability, args.cumulative))

BinomInvpCall ==
    /\ fn = "binom.invp" /\ pc = "call"
    /\ Returns(BinomInvp(args.cumulativeProb, args.successes, args.trials))

\* binom.conf up to the choice of the method, which loc keeps
BinomConfEnter ==
    /\ fn = "binom.conf" /\ pc = "call"
    /\ LET errors == BinomConfErrors(args.alpha, args.successes, args.trials,
                                     BinomConfMethod(args.type, args.method))
       IN  IF Len(errors) > 0 THEN Returns(Error(errors))
           ELSE /\ pc' = "compute"
                /\ \E method \in {BinomConfChosen(args)} : loc' = [method |-> method]
                /\ UNCHANGED <<fn, args, sub, ret>>

\* the branch of the method, to the return of the interval
BinomConfReturn ==
    /\ fn = "binom.conf" /\ pc = "compute"
    /\ Returns(BinomConfInterval(args, loc.method))

PoissonInvmuCall ==
    /\ fn = "poisson.invmu" /\ pc = "call"
    /\ Returns(PoissonInvmu(args.cumulativeProb, args.successes))

PoissonConfCall ==
    /\ fn = "poisson.conf" /\ pc = "call"
    /\ Returns(PoissonConf(args))

NormConfCall ==
    /\ fn = "norm.conf" /\ pc = "call"
    /\ Returns(NormConf(args))

TInvCall ==
    /\ fn = "t.inv" /\ pc = "call"
    /\ Returns(TInv(args.prob, args.df))

TConfCall ==
    /\ fn = "t.conf" /\ pc = "call"
    /\ Returns(TConf(args))

ChisqDistCall ==
    /\ fn = "chisq.dist" /\ pc = "call"
    /\ Returns(ChisqDist(args.chiStat, args.df, args.cumulative))
ChisqInvCall ==
    /\ fn = "chisq.inv" /\ pc = "call"
    /\ \E r \in ChisqInvOutcomes(args.prob, args.df) : Returns(r)

ChisqConfCall ==
    /\ fn = "chisq.conf" /\ pc = "call"
    /\ \E r \in ChisqConfOutcomes(args) : Returns(r)

PermutationsCall ==
    /\ fn = "permutations" /\ pc = "call"
    /\ Returns(PermutationsOf(args.n, args.k))
NormDistCall ==
    /\ fn = "norm.dist" /\ pc = "call"
    /\ Returns(NormDist(args.x, args.mean, args.stdev, args.cumulative))
\* the arguments the calls are made with: probabilities inside and outside
\* [0, 1], counts that are valid, negative, fractional or no number
CallProbs == {Num(0), Num(2), Num(20), Num(30), Num(40), Num(-10), NaN}
Sides == {"undefined", "1", "2", "3", "lower", "Two", "upper", "sideways"}
CallArgs ==
    [ f \in {"lnGamma", "lnBetaIncomplete", "permutations", "combinations", "binom.dist", "binom.inv", "binom.invp",
             "binom.conf", "poisson.inv", "poisson.invmu", "poisson.conf", "norm.dist", "norm.inv", "norm.conf",
             "t.inv", "t.conf", "chisq.dist", "chisq.inv", "chisq.conf"} |->
      CASE f = "lnGamma" ->
             [z : {NaN, Undef, NumInt(-1), Num(-10), Num(0), Num(10), NumInt(1), NumInt(3)}]
        [] f = "lnBetaIncomplete" ->
             [x : {Num(-10), Num(0), Num(10), Num(20), Num(30), NaN},
              a : {Num(10), NumInt(2), NaN}, b : {Num(10), NumInt(2), Undef}]
        [] f = "permutations" ->
             [n : {NaN, Undef, Num(-50), Num(50)} \cup {NumInt(i) : i \in -1..MaxTrials},
              k : {NaN, Undef, Num(-50), Num(30)} \cup {NumInt(i) : i \in -2..MaxTrials}]
        [] f = "combinations" ->
             [n : {NaN, Undef} \cup {NumInt(i) : i \in -1..MaxTrials},
              k : {NaN, Undef} \cup {NumInt(i) : i \in -1..MaxTrials}]
        [] f = "binom.dist" ->
             [successes : {NumInt(-1), NumInt(0), NumInt(2), NumInt(5), Num(30), NaN},
              trials : {NumInt(-1), NumInt(0), NumInt(MaxTrials), Num(50), NaN},
              probability : {Num(-10), Num(0), Num(10), Num(20), Num(30), NaN, Undef},
              cumulative : BOOLEAN]
             \cup [successes : {NumInt(i) : i \in 0..MaxTrials}, trials : {NumInt(i) : i \in 0..MaxTrials},
                   probability : {Num(0), Num(5), Num(10), Num(15), Num(20)}, cumulative : BOOLEAN]
             \cup [successes : {NumInt(i) : i \in 0..10}, trials : {NumInt(10)},
                   probability : {Num(0), Num(10), Num(20)}, cumulative : BOOLEAN]
        [] f = "binom.inv" ->
             [cumulativeProb : SearchProbs, trials : SearchTrials, successProb : SuccessProbs]
        [] f = "binom.invp" ->
             [cumulativeProb : CallProbs,
              successes : {NumInt(-1), NumInt(0), NumInt(2), NumInt(MaxTrials), Num(30), NaN},
              trials : {NumInt(0), NumInt(MaxTrials), NaN}]
        [] f = "binom.conf" ->
             [alpha : CallProbs, successes : {NumInt(0), NumInt(2), NumInt(MaxTrials), Num(30)},
              trials : {NumInt(0), NumInt(MaxTrials)},
              type : Sides \cup {"exact"}, method : {"undefined", "exact", "estimate", "Exact", "nearly"}]
             \cup [alpha : CallProbs, successes : {NumInt(10)}, trials : {NumInt(20)},
                   type : Sides, method : {"undefined", "estimate"}]
             \cup [alpha : {Num(2)}, successes : {NumInt(6), NumInt(9), NumInt(30)}, trials : {NumInt(36)},
                   type : {"undefined", "1"}, method : {"undefined", "exact", "estimate"}]
        [] f = "poisson.inv" -> [cumulativeProb : SearchProbs, avgSuccesses : SearchRates]
        [] f = "poisson.invmu" ->
             [cumulativeProb : CallProbs,
              successes : {NumInt(-1), NumInt(0), NumInt(1), NumInt(3), Num(30), NaN}]
        [] f = "poisson.conf" ->
             [alpha : CallProbs, successes : {NumInt(-1), NumInt(0), NumInt(1), NumInt(3), Num(30), NaN},
              type : Sides]
        [] f = "norm.dist" ->
             [x : {NumInt(0), NumInt(1), NaN}, mean : {NumInt(0), NaN},
              stdev : {NumInt(1), Num(10), NumInt(0), NumInt(-1), NaN, Undef}, cumulative : BOOLEAN]
        [] f = "norm.inv" -> [prob : SolverProbs, mean : {0}, stdev : {1, -1}]
        [] f = "norm.conf" ->
             [alpha : CallProbs, sampleMean : {NumInt(0)}, popStdev : {NumInt(2), NumInt(-1), NaN},
              sampleSize : {NumInt(25), NumInt(-1), NaN}, type : Sides]
        [] f = "t.inv" -> [prob : CallProbs, df : {NumInt(0), NumInt(1), NumInt(24), NaN}]
        [] f = "t.conf" ->
             [alpha : CallProbs, sampleMean : {NumInt(0), NumInt(3)}, sampleStdev : {NumInt(2), NaN},
              sampleSize : {NumInt(1), NumInt(2), NumInt(25), NumInt(-1), NaN}, type : Sides]
        [] f = "chisq.dist" ->
             [chiStat : {NumInt(-1), Num(-10), NumInt(0), Num(10), NumInt(1), NumInt(3), NaN, Undef},
              df : {NumInt(-1), NumInt(0), NumInt(1), NumInt(2), NumInt(5), Num(50), NaN},
              cumulative : BOOLEAN]
        [] f = "chisq.inv" -> [prob : CallProbs, df : {NumInt(0), NumInt(1), NumInt(24), NaN}]
        [] f = "chisq.conf" ->
             [alpha : CallProbs, sampleStdev : {NumInt(2), NaN},
              sampleSize : {NumInt(1), NumInt(25), Num(50), NumInt(-1), NaN}, type : Sides] ]

InitCalls ==
    /\ fn \in DOMAIN CallArgs
    /\ args \in CallArgs[fn]
    /\ pc = "call"
    /\ loc = NoLoc
    /\ sub = NoSub
    /\ ret = NoRet

\* binom.inv, poisson.inv and norm.inv are taken to the end of their checks and
\* first guess here; SpecSearch and SpecSolver follow their loops
NextCalls ==
    \/ LnGammaCall
    \/ LnBetaIncompleteEnter
    \/ LnBetaIncompleteReturn
    \/ PermutationsCall
    \/ CombinationsCall
    \/ BinomDistEnter
    \/ BinomDistReturn
    \/ BinomInvEnter
    \/ BinomInvpCall
    \/ BinomConfEnter
    \/ BinomConfReturn
    \/ PoissonInvEnter
    \/ PoissonInvmuCall
    \/ PoissonConfCall
    \/ NormDistCall
    \/ NormInvEnter
    \/ NormConfCall
    \/ TInvCall
    \/ TConfCall
    \/ ChisqDistCall
    \/ ChisqInvCall
    \/ ChisqConfCall

SpecCalls == InitCalls /\ [][NextCalls]_vars

(***************************************************************************)
(* chisq.test1s and the cumulative chisq.dist under it, for an even number *)
(* of degrees of freedom and a statistic that is a multiple of 2 / Unit.   *)
(* chisq.dist returns                                                      *)
(*   Math.exp(lnGammaIncomplete(df/2, chiStat/2) - lnGamma(df/2)),         *)
(* and lnGammaIncomplete(a, x) returns a * Math.log(x) - x + Math.log(sum) *)
(* for the sum of its series; the exponential of the difference is         *)
(* computed here as x^a * e^(-x) * sum / (a - 1)!, lnGamma(a) being the    *)
(* logarithm of (a - 1)! to within 1e-9 for an integer a.                  *)
(***************************************************************************)
\* Math.floor of a real that is not negative
RFloor(x) == x.m[FracLimbs + 1] + Base * x.m[FracLimbs + 2]
\* 1 - r/1 * (1 - r/2 * (... (1 - r/n * acc))): the series of Math.exp(-r)
RECURSIVE ExpNegSeries(_, _, _)
ExpNegSeries(r, n, acc) ==
    IF n = 0 THEN acc
    ELSE Apply1(LAMBDA next : ExpNegSeries(r, n - 1, next), RSub(ROne, RDivInt(RMul(r, acc), n)))
ExpSeriesTerms == 2 ^ 3
\* Math.exp(-x) for x >= 0 with xUnits = Math.floor(x * Unit): the power of
\* Math.exp(-1 / Unit) times the series for what is left of x
RExpNeg(x, xUnits) ==
    RMul(RPow(ExpNegUnit, xUnits), ExpNegSeries(RSub(x, RDivInt(RInt(xUnits), Unit)), ExpSeriesTerms, ROne))

RECURSIVE Factorial(_)
Factorial(n) == IF n <= 1 THEN 1 ELSE n * Factorial(n - 1)

\* the locals of lnGammaIncomplete(df / 2, chiStat / 2) before its loop
ChisqDistFrame(chiStat, df) ==
    [fn |-> "chisq.dist", pc |-> "loop", a |-> IntOf(df) \div 2, x |-> ROfNum(HalfOf(chiStat)),
     xUnits |-> chiStat.q \div 2, sum |-> RDivInt(ROne, IntOf(df) \div 2),
     value |-> RDivInt(ROne, IntOf(df) \div 2), lastSum |-> RZero, n |-> 1, prob |-> RNaN]

\* Math.exp(a * Math.log(x) - x + Math.log(sum) - lnGamma(a)); Math.log(0) is
\* -Infinity, whose exponential is 0
ChisqProb(a, x, xUnits, sum) ==
    IF RSign(x) = 0 THEN RZero
    ELSE RDivInt(RMul(RMul(RPow(x, a), RExpNeg(x, xUnits)), sum), Factorial(a - 1))

\* one pass of the series of lnGammaIncomplete: value *= x/(a + n); sum += value; n++
LnGammaIncompletePass ==
    /\ sub.fn = "chisq.dist" /\ sub.pc = "loop"
    /\ \E value \in {RDivInt(RMul(sub.value, sub.x), sub.a + sub.n)} :
       \E sum \in {RAdd(sub.sum, value)} :
          sub' = [sub EXCEPT !.lastSum = sub.sum, !.value = value, !.sum = sum,
                             !.n = sub.n + 1,
                             !.pc = IF SeriesGoesOn(sum, sub.sum, sub.n + 1)
                                    THEN "loop" ELSE "done",
                             !.prob = IF SeriesGoesOn(sum, sub.sum, sub.n + 1)
                                      THEN sub.prob
                                      ELSE ChisqProb(sub.a, sub.x, sub.xUnits, sum)]
    /\ UNCHANGED <<fn, args, pc, loc, ret>>

ChisqTestErrors(expectedStdev, sampleStdev, sampleSize) ==
    (IF isNaN(expectedStdev) THEN <<"chisq.test1s: The expected variance must be a number">> ELSE <<>>)
    \o (IF isNaN(sampleStdev) THEN <<"chisq.test1s: the sample variance must be a number">> ELSE <<>>)
    \o (IF isNaN(sampleSize) THEN <<"chisq.test1s: The sample size must be a number">> ELSE <<>>)
    \o (IF ~isNaN(sampleSize) /\ Lt(sampleSize, NumInt(0))
        THEN <<"chisq.test1s: The sample size must be positive">> ELSE <<>>)

\* alternative = typeof alternative === "undefined" ? 2 : ...toLowerCase()
AlternativeOf(alternative) == IF alternative = "undefined" THEN "2" ELSE ToLowerCase(alternative)

\* chisq = (sampleSize - 1) * sampleStdev^2 / expectedStdev^2, for expectedStdev > 0
ChisqStatistic(expectedStdev, sampleStdev, sampleSize) ==
    Num((Unit * (IntOf(sampleSize) - 1) * sampleStdev.q * sampleStdev.q)
        \div (expectedStdev.q * expectedStdev.q))

\* chisq.test1s up to its call of chisq.dist(chisq, df, true)
ChisqTestEnter ==
    /\ fn = "chisq.test1s" /\ pc = "call"
    /\ LET errors == ChisqTestErrors(args.expectedStdev, args.sampleStdev, args.sampleSize)
           chisq == ChisqStatistic(args.expectedStdev, args.sampleStdev, args.sampleSize)
           df == AddInt(args.sampleSize, -1)
       IN  IF Len(errors) > 0
           THEN /\ pc' = "threw" /\ ret' = Error(errors) /\ sub' = sub
           ELSE IF AlternativeOf(args.alternative) \notin {"1", "less", "2", "diff", "3", "greater"}
           THEN /\ pc' = "threw"
                /\ ret' = Error(<<"chisq.test1s: The alternative must be a number between 1 - 3 or less, diff, or greater">>)
                /\ sub' = sub
           ELSE IF Len(ChisqDistErrors(chisq, df)) > 0
           THEN /\ pc' = "threw" /\ ret' = Error(ChisqDistErrors(chisq, df)) /\ sub' = sub
           ELSE /\ pc' = "dist" /\ ret' = ret /\ sub' = ChisqDistFrame(chisq, df)
    /\ UNCHANGED <<fn, args, loc>>

\* the value returned for the alternative, from the cumulative probability
ChisqTestValue(alternative, sampleStdev, expectedStdev, prob) ==
    IF alternative \in {"1", "less"} THEN prob
    ELSE IF alternative \in {"2", "diff"}
    THEN IF Gt(sampleStdev, expectedStdev) THEN RMulInt(RSub(ROne, prob), 2) ELSE RMulInt(prob, 2)
    ELSE RSub(ROne, prob)

ChisqTestReturn ==
    /\ fn = "chisq.test1s" /\ pc = "dist" /\ sub.pc = "done"
    /\ pc' = "done"
    /\ ret' = Value(ChisqTestValue(AlternativeOf(args.alternative), args.sampleStdev,
                                   args.expectedStdev, sub.prob))
    /\ UNCHANGED <<fn, args, loc, sub>>

InitTest ==
    /\ fn = "chisq.test1s"
    /\ args \in [expectedStdev : {NumInt(1), NumInt(2), NaN},
                 sampleStdev : {NumInt(0), NumInt(1), NumInt(2), NaN},
                 sampleSize : {NumInt(3), NumInt(5), NumInt(-1), NaN},
                 alternative : {"undefined", "1", "2", "3", "less", "diff", "greater", "sideways"}]
    /\ pc = "call"
    /\ loc = NoLoc
    /\ sub = NoSub
    /\ ret = NoRet

NextTest ==
    \/ ChisqTestEnter
    \/ LnGammaIncompletePass
    \/ ChisqTestReturn

SpecTest == InitTest /\ [][NextTest]_vars

(***************************************************************************)
(* chisq.inv: the continuous inverse search over chisq.dist, for an even   *)
(* number of degrees of freedom.  The guesses are reals; chisq.dist raises *)
(* its error for a guess below 0.                                          *)
(***************************************************************************)
\* step = 0.20, stepInc = 1.09, stepDec = 0.35
chisqStep0 == RLit(1, 0, <<2000, 0, 0, 0>>)
ChisqGrowStep(step) == RDivInt(RMulInt(step, 109), 100)
ChisqShrinkStep(step) == RDivInt(RMulInt(step, 35), 100)
\* lastDiff * diff > 0 grows the step, anything else shrinks it
ChisqSolverStep(lastDiff, diff, step) ==
    IF RSign(lastDiff) * RSign(diff) > 0 THEN ChisqGrowStep(step) ELSE ChisqShrinkStep(step)

\* the first guess: df - 1 for prob <= 0.5, df + 1 above
ChisqInvGuess(prob, df) ==
    IF ~RGt(prob, RHalf) THEN RInt(IntOf(df) - 1) ELSE RInt(IntOf(df) + 1)

\* the locals of lnGammaIncomplete(df / 2, chisq / 2) before its loop, for a
\* real chisq >= 0
ChisqDistFrameAt(chisq, df) ==
    Apply1(LAMBDA x :
               [fn |-> "chisq.dist", pc |-> "loop", a |-> IntOf(df) \div 2, x |-> x,
                xUnits |-> RFloor(RMulInt(x, Unit)), sum |-> RDivInt(ROne, IntOf(df) \div 2),
                value |-> RDivInt(ROne, IntOf(df) \div 2), lastSum |-> RZero, n |-> 1, prob |-> RNaN],
           RDivInt(chisq, 2))

\* entry: the argument checks, the locals and the first guess
ChisqInvEnter ==
    /\ fn = "chisq.inv" /\ pc = "call"
    /\ LET errors == ChisqInvErrors(args.prob, args.df)
       IN  IF Len(errors) > 0
           THEN /\ pc' = "threw"
                /\ ret' = Error(errors)
                /\ loc' = loc
           ELSE /\ pc' = "loop"
                /\ loc' = [chisq |-> ChisqInvGuess(ROfNum(args.prob), args.df), diff |-> RZero,
                           step |-> chisqStep0, iter |-> 0, direction |-> 1, lastDiff |-> ROne]
                /\ ret' = ret
    /\ UNCHANGED <<fn, args, sub>>

\* the head of a pass: globalObject.chisq.dist(chisq, df, true) is called,
\* and raises its error for a negative chisq
ChisqInvCallDist ==
    /\ fn = "chisq.inv" /\ pc = "loop"
    /\ IF RLt(loc.chisq, RZero)
       THEN /\ pc' = "threw"
            /\ ret' = Error(<<"chisq.dist: The chi-square statistic must be greater than or equal to 0">>)
            /\ sub' = sub
       ELSE /\ pc' = "eval"
            /\ ret' = ret
            /\ sub' = ChisqDistFrameAt(loc.chisq, args.df)
    /\ UNCHANGED <<fn, args, loc>>

\* the rest of the pass once chisq.dist has returned, and the while condition
ChisqInvPass ==
    /\ fn = "chisq.inv" /\ pc = "eval" /\ sub.pc = "done"
    /\ \E diff \in {RSub(ROfNum(args.prob), sub.prob)} :
       \E step \in {ChisqSolverStep(loc.lastDiff, diff, loc.step)} :
       \E chisq \in {RAdd(loc.chisq, RMulInt(step, SolverDirection(diff)))} :
          /\ loc' = [chisq |-> chisq, diff |-> diff, step |-> step, iter |-> loc.iter + 1,
                     direction |-> SolverDirection(diff), lastDiff |-> diff]
          /\ IF SolverContinues(diff, loc.iter + 1)
             THEN pc' = "loop" /\ ret' = ret
             ELSE pc' = "done" /\ ret' = Value(chisq)
    /\ sub' = NoSub
    /\ UNCHANGED <<fn, args>>

InitChisqInv ==
    /\ fn = "chisq.inv"
    /\ args \in [prob : {Num(0), Num(1), Num(10), Num(19), Num(30), NaN},
                 df : {NumInt(2), NumInt(4), NumInt(0)}]
    /\ pc = "call"
    /\ loc = NoLoc
    /\ sub = NoSub
    /\ ret = NoRet

NextChisqInv ==
    \/ ChisqInvEnter
    \/ ChisqInvCallDist
    \/ LnGammaIncompletePass
    \/ ChisqInvPass

SpecChisqInv == InitChisqInv /\ [][NextChisqInv]_vars

(***************************************************************************)
(* t.inv: the same search over t.dist.  The probability t.dist returns at  *)
(* a guess is left open: each pass draws it from TDistValues.  The passes  *)
(* are followed up to MaxPasses.                                           *)
(***************************************************************************)
MaxPasses == 3
TDistValues ==
    { RLit(1, 0, <<2000, 0, 0, 0>>), RHalf, RLit(1, 0, <<5000, 0, 50, 0>>),
      RLit(1, 0, <<8000, 0, 0, 0>>) }

\* entry: the argument checks, the locals and the first guess
TInvEnter ==
    /\ fn = "t.inv" /\ pc = "call"
    /\ LET errors == TInvErrors(args.prob, args.df)
       IN  IF Len(errors) > 0
           THEN /\ pc' = "threw"
                /\ ret' = Error(errors)
                /\ loc' = loc
           ELSE /\ pc' = "loop"
                /\ loc' = [t |-> ROfNum(TInvGuess(args.prob)), diff |-> RZero, step |-> normStep0,
                           iter |-> 0, direction |-> 1, lastDiff |-> ROne]
                /\ ret' = ret
    /\ UNCHANGED <<fn, args, sub>>

\* one pass of the do-while, and the while condition
TInvPass ==
    /\ fn = "t.inv" /\ pc = "loop"
    /\ loc.iter < MaxPasses
    /\ \E prob \in TDistValues :
       \E diff \in {RSub(ROfNum(args.prob), prob)} :
       \E step \in {SolverStep(loc.lastDiff, diff, loc.step)} :
       \E t \in {RAdd(loc.t, RMulInt(step, SolverDirection(diff)))} :
          /\ loc' = [t |-> t, diff |-> diff, step |-> step, iter |-> loc.iter + 1,
                     direction |-> SolverDirection(diff), lastDiff |-> diff]
          /\ IF SolverContinues(diff, loc.iter + 1)
             THEN pc' = "loop" /\ ret' = ret
             ELSE pc' = "done" /\ ret' = Value(t)
    /\ UNCHANGED <<fn, args, sub>>

InitTInv ==
    /\ fn = "t.inv"
    /\ args \in [prob : {Num(4), Num(10), Num(16), NaN}, df : {NumInt(1), NumInt(5)}]
    /\ pc = "call"
    /\ loc = NoLoc
    /\ sub = NoSub
    /\ ret = NoRet

(***************************************************************************)
(* The three continuous searches together.                                 *)
(***************************************************************************)
InitInverse == InitSolver \/ InitChisqInv \/ InitTInv

NextInverse ==
    \/ NormInvEnter
    \/ NormInvCallDist
    \/ NormDistPass
    \/ NormInvPass
    \/ TInvEnter
    \/ TInvPass
    \/ ChisqInvEnter
    \/ ChisqInvCallDist
    \/ LnGammaIncompletePass
    \/ ChisqInvPass

SpecInverse == InitInverse /\ [][NextInverse]_vars

(***************************************************************************)
(* chisq.conf(alpha, sampleStdev, sampleSize, type) for the two-sided      *)
(* types, with both calls of chisq.inv run pass by pass.  loc.inv holds    *)
(* the locals of the chisq.inv that is running and loc.side says which of  *)
(* the two bounds it is for.  A bound is kept as the quotient it is: num   *)
(* over den.                                                               *)
(***************************************************************************)
\* the argument checks of chisq.inv, for a probability that is a real
ChisqInvErrorsOn(prob, df) ==
    (IF IsNaN(prob) THEN <<"chisq.inv: the probability is not a number">> ELSE <<>>)
    \o (IF ~IsNaN(prob) /\ (RGt(prob, ROne) \/ RLt(prob, RZero))
        THEN <<"chisq.inv: the probability should be between 0 and 1 including the bounds">> ELSE <<>>)
    \o (IF isNaN(df) THEN <<"chisq.inv: the degrees of freedom is not a number">> ELSE <<>>)
    \o (IF ~isNaN(df) /\ Lt(df, NumInt(1))
        THEN <<"chisq.inv: the degrees of freedom should be a positive number greater than or equal to 1">>
        ELSE <<>>)

\* the locals of chisq.inv(prob, df) before its loop
ChisqInvLocals(prob, df) ==
    [prob |-> prob, df |-> df, chisq |-> ChisqInvGuess(prob, df), diff |-> RZero,
     step |-> chisqStep0, iter |-> 0, direction |-> 1, lastDiff |-> ROne]

\* (sampleSize - 1) * Math.pow(sampleStdev, 2) / chisq
ChisqConfQuotient(a, chisq) ==
    [t |-> "ratio", num |-> (IntOf(a.sampleSize) - 1) * IntOf(a.sampleStdev) * IntOf(a.sampleStdev),
     den |-> chisq]

\* entry: the checks, lowerBoundProb = 1 - alpha/2, upperBoundProb = alpha/2,
\* and the entry of chisq.inv(lowerBoundProb, df)
ChisqConfEnter ==
    /\ fn = "chisq.conf" /\ pc = "call"
    /\ IsTwoSide(SideOf(args.type))
    /\ LET errors == ChisqConfErrors(args.alpha, args.sampleStdev, args.sampleSize)
       IN  IF Len(errors) > 0
           THEN /\ pc' = "threw"
                /\ ret' = Error(errors)
                /\ loc' = loc
           ELSE \E upperBoundProb \in {RDivInt(ROfNum(args.alpha), 2)} :
                \E lowerBoundProb \in {RSub(ROne, upperBoundProb)} :
                \E df \in {ChisqConfDf(args.sampleSize)} :
                   IF Len(ChisqInvErrorsOn(lowerBoundProb, df)) > 0
                   THEN /\ pc' = "threw"
                        /\ ret' = Error(ChisqInvErrorsOn(lowerBoundProb, df))
                        /\ loc' = loc
                   ELSE /\ pc' = "loop"
                        /\ ret' = ret
                        /\ loc' = [lowerBoundProb |-> lowerBoundProb,
                                   upperBoundProb |-> upperBoundProb, df |-> df,
                                   side |-> "lower", lowerIntervalBound |-> Undef,
                                   inv |-> ChisqInvLocals(lowerBoundProb, df)]
    /\ UNCHANGED <<fn, args, sub>>

\* the head of a pass of chisq.inv: chisq.dist(chisq, df, true) is called, and
\* raises its error for a negative chisq
ChisqConfCallDist ==
    /\ fn = "chisq.conf" /\ pc = "loop"
    /\ IF RLt(loc.inv.chisq, RZero)
       THEN /\ pc' = "threw"
            /\ ret' = Error(<<"chisq.dist: The chi-square statistic must be greater than or equal to 0">>)
            /\ sub' = sub
       ELSE /\ pc' = "eval"
            /\ ret' = ret
            /\ sub' = ChisqDistFrameAt(loc.inv.chisq, loc.df)
    /\ UNCHANGED <<fn, args, loc>>

\* the rest of the pass; when chisq.inv returns, the bound is computed, and
\* chisq.inv(upperBoundProb, df) is entered or the interval is returned
ChisqConfPass ==
    /\ fn = "chisq.conf" /\ pc = "eval" /\ sub.pc = "done"
    /\ \E diff \in {RSub(loc.inv.prob, sub.prob)} :
       \E step \in {ChisqSolverStep(loc.inv.lastDiff, diff, loc.inv.step)} :
       \E chisq \in {RAdd(loc.inv.chisq, RMulInt(step, SolverDirection(diff)))} :
          IF SolverContinues(diff, loc.inv.iter + 1)
          THEN /\ pc' = "loop"
               /\ ret' = ret
               /\ loc' = [loc EXCEPT !.inv = [prob |-> loc.inv.prob, df |-> loc.inv.df,
                                              chisq |-> chisq, diff |-> diff, step |-> step,
                                              iter |-> loc.inv.iter + 1,
                                              direction |-> SolverDirection(diff),
                                              lastDiff |-> diff]]
          ELSE IF loc.side = "lower"
          THEN /\ pc' = "loop"
               /\ ret' = ret
               /\ loc' = [loc EXCEPT !.side = "upper",
                                     !.lowerIntervalBound = ChisqConfQuotient(args, chisq),
                                     !.inv = ChisqInvLocals(loc.upperBoundProb, loc.df)]
          ELSE /\ pc' = "done"
               /\ ret' = Value(Interval(loc.lowerIntervalBound, ChisqConfQuotient(args, chisq)))
               /\ loc' = loc
    /\ sub' = NoSub
    /\ UNCHANGED <<fn, args>>

InitChisqConf ==
    /\ fn = "chisq.conf"
    /\ args \in [alpha : {Num(1), Num(2), Num(10), Num(20), Num(30)},
                 sampleStdev : {NumInt(1), NumInt(2)},
                 sampleSize : {NumInt(1), NumInt(3), NumInt(5)},
                 type : {"undefined", "two"}]
    /\ pc = "call"
    /\ loc = NoLoc
    /\ sub = NoSub
    /\ ret = NoRet

NextChisqConf ==
    \/ ChisqConfEnter
    \/ ChisqConfCallDist
    \/ LnGammaIncompletePass
    \/ ChisqConfPass

SpecChisqConf == InitChisqConf /\ [][NextChisqConf]_vars

(***************************************************************************)
(* t.dist(tValue, df, cumulative).  loc holds the local prob, which is     *)
(* declared without a value; cumulative is "true", "false" or              *)
(* "undefined".  The cumulative probability is left as some number; the    *)
(* density is kept as the term it is computed from.                        *)
(***************************************************************************)
\* Math.exp(lnGamma((df + 1) / 2) - (1/2) * Math.log(df * Math.PI)
\*          - lnGamma(df / 2) - ((df + 1) / 2) * Math.log(1 + (Math.pow(value, 2)/df))):
\* Math.pow of undefined or NaN is NaN, and so is all that is computed from it
TDensityAt(value, df) ==
    IF value.t # "num" THEN NaN
    ELSE [t |-> "density", square |-> value.q * value.q, df |-> df]

\* entry: the default of cumulative, the argument checks and the locals
TDistEnter ==
    /\ fn = "t.dist" /\ pc = "call"
    /\ LET errors == TDistErrors(args.tValue, args.df)
       IN  IF Len(errors) > 0
           THEN /\ pc' = "threw"
                /\ ret' = Error(errors)
                /\ loc' = loc
           ELSE /\ pc' = "compute"
                /\ ret' = ret
                /\ loc' = [cumulative |-> IF args.cumulative = "undefined" THEN "true"
                                          ELSE args.cumulative,
                           prob |-> Undef]
    /\ UNCHANGED <<fn, args, sub>>

\* if (cumulative === true) { ... } else { prob = Math.exp(... Math.pow(prob, 2) ...) }
\* return prob
TDistReturn ==
    /\ fn = "t.dist" /\ pc = "compute"
    /\ \E prob \in {IF loc.cumulative = "true" THEN SomeNumber ELSE TDensityAt(loc.prob, args.df)} :
          /\ loc' = [loc EXCEPT !.prob = prob]
          /\ ret' = Value(prob)
    /\ pc' = "done"
    /\ UNCHANGED <<fn, args, sub>>

InitTDist ==
    /\ fn = "t.dist"
    /\ args \in [tValue : {NumInt(-2), NumInt(-1), Num(-(Unit \div 2)), NumInt(0), Half,
                           NumInt(1), NumInt(2), NaN},
                 df : {NumInt(1), NumInt(2), NumInt(5), NumInt(30), NumInt(-1), NaN},
                 cumulative : {"true", "false", "undefined"}]
    /\ pc = "call"
    /\ loc = NoLoc
    /\ sub = NoSub
    /\ ret = NoRet

NextTDist ==
    \/ TDistEnter
    \/ TDistReturn

SpecTDist == InitTDist /\ [][NextTDist]_vars

(***************************************************************************)
(* The data objects.  ss(data, delimiter) parses a file or an array into   *)
(* rows and returns a new JsonData over them.  A string is the sequence of *)
(* its characters; a cell of a row is a number [t |-> "num", q] or a       *)
(* string [t |-> "str", s]; a row is a function from its column names to   *)
(* its cells.  Here loc is what outlives the calls: loc.objects, the       *)
(* JsonData objects made so far, and loc.prototype, the properties set on  *)
(* JsonData.prototype.  sub is the frame of percentile.                    *)
(***************************************************************************)
Str(chars) == [t |-> "str", s |-> chars]
NoRow == [c \in {} |-> Undef]
\* object[name] = value
Put(object, name, value) ==
    [c \in (DOMAIN object) \cup {name} |-> IF c = name THEN value ELSE object[c]]

\* the place of the first separator in s at or after i, or 0
RECURSIVE IndexOf(_, _, _)
IndexOf(s, separator, i) ==
    IF i + Len(separator) - 1 > Len(s) THEN 0
    ELSE IF SubSeq(s, i, i + Len(separator) - 1) = separator THEN i
    ELSE IndexOf(s, separator, i + 1)

\* s.split(separator), for a separator that is not empty
RECURSIVE Split(_, _)
Split(s, separator) ==
    Apply1(LAMBDA at :
               IF at = 0 THEN <<s>>
               ELSE <<SubSeq(s, 1, at - 1)>> \o Split(SubSeq(s, at + Len(separator), Len(s)), separator),
           IndexOf(s, separator, 1))

\* the line ending of the file, the empty string standing for undefined
guessLineEndings(input) ==
    LET r == Split(input, <<"\r">>)
        n == Split(input, <<"\n">>)
        numWithN == Cardinality({i \in 1..Len(r) : Len(r[i]) > 0 /\ r[i][1] = "\n"})
    IN  IF Len(r) = 1
        THEN IF Len(n) > 1 THEN <<"\n">> ELSE <<>>
        ELSE IF 2 * numWithN >= Len(r) THEN <<"\r", "\n">> ELSE <<"\r">>

FileError(process, message, row) ==
    [function |-> "fileParser", process |-> process, message |-> message, row |-> row]

\* the fields j.. of line i into lineObject
RECURSIVE ParseFields(_, _, _, _, _, _)
ParseFields(dataFields, dataHeaders, i, j, lineObject, errors) ==
    IF j > Len(dataFields) THEN [lineObject |-> lineObject, errors |-> errors]
    ELSE IF j <= Len(dataHeaders)
    THEN ParseFields(dataFields, dataHeaders, i, j + 1,
                     Put(lineObject, dataHeaders[j], Str(dataFields[j])), errors)
    ELSE ParseFields(dataFields, dataHeaders, i, j + 1, lineObject,
                     Append(errors, FileError("Parsing data fields",
                                              "Fields exceeded expected number based on headers, skipping",
                                              i)))

\* the lines i.. (counted from 0, the headers) into fileJson
RECURSIVE ParseLines(_, _, _, _, _, _)
ParseLines(dataLines, delimiter, dataHeaders, i, fileJson, errors) ==
    IF i >= Len(dataLines) THEN [fileJson |-> fileJson, errors |-> errors]
    ELSE IF dataLines[i + 1] = <<>>
    THEN ParseLines(dataLines, delimiter, dataHeaders, i + 1, fileJson,
                    Append(errors, FileError("Parsing file lines",
                                             "No data present in the indicated line, skipping", i)))
    ELSE Apply1(LAMBDA line :
                    ParseLines(dataLines, delimiter, dataHeaders, i + 1,
                               Append(fileJson, line.lineObject), line.errors),
                ParseFields(Split(dataLines[i + 1], delimiter), dataHeaders, i, 1, NoRow, errors))

\* fileParser(file, delimiter): the rows, and the errors it leaves on
\* JsonData.prototype
fileParser(file, delimiter) ==
    LET separator == IF delimiter = "undefined" THEN "," ELSE delimiter
        lineEnding == guessLineEndings(file)
        dataLines == Split(file, lineEnding)
    IN  IF separator # "," /\ separator # "\t"
        THEN Error(<<"Only CSV and TSV file types can be parsed">>)
        ELSE IF lineEnding = <<>> THEN Error(<<"File provided has no line endings">>)
        ELSE Apply1(LAMBDA parsed : [kind |-> "value", value |-> parsed.fileJson, errors |-> parsed.errors],
                    ParseLines(dataLines, <<separator>>, Split(dataLines[1], <<separator>>), 1, <<>>, <<>>))

\* dataParser(data) for an array: one row per value, under "defaultCol"
defaultCol == <<"d", "e", "f", "a", "u", "l", "t", "C", "o", "l">>
DataParserArray(items) ==
    Value(Seq1([i \in 1..Len(items) |-> Put(NoRow, defaultCol, items[i])], Len(items)))

\* json[i][column] = values[i] for every i, json[i] made where it is missing
ColumnInto(json, column, values) ==
    Seq1([i \in 1..(IF Len(values) > Len(json) THEN Len(values) ELSE Len(json)) |->
            IF i > Len(values) THEN json[i]
            ELSE Put(IF i <= Len(json) THEN json[i] ELSE NoRow, column, values[i])],
         IF Len(values) > Len(json) THEN Len(values) ELSE Len(json))

\* dataParser(data) for an object literal, columns its properties in their
\* order: [name, isArray, values]
RECURSIVE DataParserObject(_, _, _)
DataParserObject(columns, c, json) ==
    IF c > Len(columns) THEN Value(json)
    ELSE IF ~columns[c].isArray
    THEN Error(<<"dataParser: all values of object properties must be arrays">>)
    ELSE DataParserObject(columns, c + 1, ColumnInto(json, columns[c].name, columns[c].values))

\* ss(data, delimiter): the rows of the new JsonData, or the error raised,
\* and JsonData.prototype as the call leaves it
globalObject(data, delimiter, prototype) ==
    IF data.type = "undefined"
    THEN [result |-> Error(<<"Need a non-empty argument.">>), prototype |-> prototype]
    ELSE IF data.type = "string"
    THEN Apply1(LAMBDA parsed :
                    IF parsed.kind = "error" THEN [result |-> parsed, prototype |-> prototype]
                    ELSE [result |-> Value([json |-> parsed.value]),
                          prototype |-> [errors |-> [t |-> "array", items |-> parsed.errors]]],
                fileParser(data.v, delimiter))
    ELSE IF data.type = "array"
    THEN [result |-> Value([json |-> DataParserArray(data.v).value]), prototype |-> prototype]
    ELSE IF data.type = "object"
    THEN Apply1(LAMBDA parsed :
                    [result |-> IF parsed.kind = "error" THEN parsed ELSE Value([json |-> parsed.value]),
                     prototype |-> prototype],
                DataParserObject(data.v, 1, <<>>))
    ELSE [result |-> Error(<<"ss: either a file parsed as a string or a single data array or object must be passed to the savvy stats object">>),
          prototype |-> prototype]

\* the characters the conversions of strings to numbers tell apart
WhiteSpace == {"\n", "\r", "\t"}
Digits == {"0", "1", "2", "3", "4", "5", "6", "7", "8", "9"}
DigitOf(c) == CHOOSE d \in 0..9 : ToString(d) = c
\* the number the digits s[1..n] write
RECURSIVE DigitsValue(_, _)
DigitsValue(s, n) == IF n = 0 THEN 0 ELSE 10 * DigitsValue(s, n - 1) + DigitOf(s[n])
\* how many characters at the head of s, from i on, are in the set
RECURSIVE Leading(_, _, _)
Leading(s, i, set) ==
    IF i > Len(s) \/ s[i] \notin set THEN 0 ELSE 1 + Leading(s, i + 1, set)
Reverse(s) == Seq1([i \in 1..Len(s) |-> s[Len(s) + 1 - i]], Len(s))
\* s without the white space at its ends
Trim(s) ==
    Apply2(LAMBDA head, tail : IF head = Len(s) THEN <<>> ELSE SubSeq(s, head + 1, Len(s) - tail),
           Leading(s, 1, WhiteSpace), Leading(Reverse(s), 1, WhiteSpace))

\* Number(cell): of a string, 0 when it is blank, the number it writes in
\* full, NaN otherwise
ToNumber(cell) ==
    IF cell.t # "str" THEN cell
    ELSE Apply1(LAMBDA s : IF s = <<>> THEN NumInt(0)
                           ELSE IF Leading(s, 1, Digits) = Len(s) THEN NumInt(DigitsValue(s, Len(s)))
                           ELSE NaN,
                Trim(cell.s))
\* parseFloat(cell): of a string, the number at its head after white space
parseFloat(cell) ==
    IF cell.t # "str" THEN cell
    ELSE Apply1(LAMBDA s : Apply1(LAMBDA n : IF n = 0 THEN NaN ELSE NumInt(DigitsValue(s, n)),
                                  Leading(s, 1, Digits)),
                SubSeq(cell.s, Leading(cell.s, 1, WhiteSpace) + 1, Len(cell.s)))

\* validateJson(json, column, filterCb) from row i on; filterCb is
\* "undefined", "all" (a function that returns true) or "notFunction"
RECURSIVE ValidateFrom(_, _, _, _, _, _)
ValidateFrom(json, column, filterCb, i, missingColumn, validJson) ==
    IF i > Len(json) THEN Value([validJson |-> validJson, count |-> Len(validJson)])
    ELSE IF column \notin DOMAIN json[i]
    THEN IF missingColumn + 1 = Len(json)
         THEN Error(<<"The column does not exist; or, if you're sure it does, the json might be broken. Verify the JSON before continuing.">>)
         ELSE ValidateFrom(json, column, filterCb, i + 1, missingColumn + 1, validJson)
    ELSE IF isNaN(ToNumber(json[i][column]))
    THEN Error(<<"The column does not contain only numbers and has to for this operation.">>)
    ELSE IF filterCb = "notFunction"
    THEN Error(<<"The function is not a function or is improperly formed.">>)
    ELSE IF filterCb = "all" \/ json[i][column] # Str(<<>>)
    THEN ValidateFrom(json, column, filterCb, i + 1, missingColumn, Append(validJson, json[i]))
    ELSE ValidateFrom(json, column, filterCb, i + 1, missingColumn, validJson)
validateJson(json, column, filterCb) == ValidateFrom(json, column, filterCb, 1, 0, <<>>)

\* jsonSort(json, sortColumn): a copy in the order of a[sortColumn] -
\* b[sortColumn]; rows the comparison holds equal keep their order
jsonSort_Unsorted(json, sortColumn) == json
RECURSIVE jsonSort(_, _)
jsonSort(json, sortColumn) ==
    IF Len(json) <= 1 THEN json
    ELSE Apply1(LAMBDA sorted :
                    Apply1(LAMBDA at : SubSeq(sorted, 1, at) \o <<json[Len(json)]>>
                                           \o SubSeq(sorted, at + 1, Len(sorted)),
                           Cardinality({j \in 1..Len(sorted) :
                                            ToNumber(sorted[j][sortColumn]).q
                                                <= ToNumber(json[Len(json)][sortColumn]).q})),
                jsonSort(SubSeq(json, 1, Len(json) - 1), sortColumn))

\* Math.floor of a double x, 0 <= x < 2 ^ 31: the bits of x.m from 2^0 up
DblFloor(x) == BitsValue(x.m, 1 - x.e, SignificandBits)

\* percentile(k, json, column, filterCb) on rows that have been validated.
\* The positions of sortedJson that are read are kept in reads; reading a
\* property of the undefined sortedJson[i] raises a TypeError.  locatorPos is
\* the double of the code; the weighted mean is taken in exact arithmetic on
\* the fraction locatorPos stands for.
PercentileOfValid(k, validJson, count, column) ==
    LET sortedJson == jsonSort(validJson, column)
        locatorPos == Apply1(LAMBDA f : DblMul(DblDiv(f.n, f.d), DblDiv(count + 1, 1)),
                             Rat(k.q, 100 * Unit))
        locatorPosInt == DblFloor(locatorPos)
        locatorPosDec == RatSub(RatMul(Rat(k.q, 100 * Unit), Rat(count + 1, 1)), Rat(locatorPosInt, 1))
        cell(i) == parseFloat(sortedJson[i + 1][column])
        defined(i) == i >= 0 /\ i < Len(sortedJson)
        typeError == Error(<<"TypeError: Cannot read property of undefined">>)
        weighted(lower, upper) ==
            IF isNaN(lower) \/ isNaN(upper) THEN NaN
            ELSE RatAdd(RatOfNum(lower), RatMul(locatorPosDec, RatSub(RatOfNum(upper), RatOfNum(lower))))
        number(x) == IF isNaN(x) THEN NaN ELSE RatOfNum(x)
    IN  IF ~(k.t = "num" /\ k.q >= 0 /\ k.q <= 100 * Unit)
        THEN [result |-> Error(<<"The kth percentile must be a number between 1 and 100">>), reads |-> {}]
        ELSE IF k.q = 0
        THEN [result |-> IF defined(0) THEN Value(number(cell(0))) ELSE typeError, reads |-> {0}]
        ELSE IF k.q = 100 * Unit
        THEN [result |-> IF defined(count - 1) THEN Value(number(cell(count - 1))) ELSE typeError,
              reads |-> {count - 1}]
        ELSE IF ~defined(locatorPosInt - 1)
        THEN [result |-> typeError, reads |-> {locatorPosInt - 1}]
        ELSE [result |-> IF defined(locatorPosInt)
                         THEN Value(weighted(cell(locatorPosInt - 1), cell(locatorPosInt)))
                         ELSE typeError,
              reads |-> {locatorPosInt - 1, locatorPosInt}]

\* percentile(k, json, column, filterCb): the rows are validated first
percentile(k, json, column, filterCb) ==
    Apply1(LAMBDA report :
               IF report.kind = "error" THEN [result |-> report, reads |-> {}]
               ELSE PercentileOfValid(k, report.value.validJson, report.value.count, column),
           validateJson(json, column, filterCb))

\* median(json, column, filterCb): the 50th percentile of the rows it has
\* validated, which percentile validates again
median(json, column, filterCb) ==
    Apply1(LAMBDA report :
               IF report.kind = "error" THEN [result |-> report, reads |-> {}]
               ELSE percentile(NumInt(50), report.value.validJson, column, filterCb),
           validateJson(json, column, filterCb))

\* at most MaxObjects data objects are made
MaxObjects == 2
NoErrors == [t |-> "undefined", items |-> <<>>]
\* what object o answers to .errors and .json: errors is not a property of
\* the object, so the one of JsonData.prototype is read
ObjectErrors(o) == loc.prototype.errors
ObjectJson(o) == loc.objects[o].json

Files ==
    {<<"h", ",", "g", "\n", "1", ",", "2", "\n", "\n", "3", ",", "4", ",", "5", "\n">>,
     <<"h", "\n", "3", "\n", "1", "0", "\n", "2">>,
     <<"h", "\r", "\n", "1", "\r", "\n", "2">>,
     <<"h", "\t", "g", "\n", "3", "\t", "1", "\n", "1", "\t", "4", "\n", "2">>,
     <<"h", "\n", "3", "\n", "g", "\n", "2", "\n">>,
     <<"h", "g">>}
Delimiters == {"undefined", "\t", ";"}
Arrays ==
    {<<>>, <<NumInt(5)>>, <<NumInt(2), NumInt(1)>>,
     <<NumInt(3), NumInt(1), NumInt(2)>>, <<NumInt(1), NumInt(2), NumInt(3), NumInt(4)>>,
     <<NumInt(4), NumInt(4), NumInt(1), NumInt(9)>>, <<NumInt(-1), NumInt(-5)>>,
     <<NumInt(1), Str(<<>>), NumInt(2)>>, <<Str(<<>>)>>, <<Str(<<"3">>), Str(<<"1", "0">>), Str(<<"2">>)>>}
ObjectLiterals ==
    {<<[name |-> <<"h">>, isArray |-> TRUE, values |-> <<NumInt(1), NumInt(2), NumInt(3)>>],
       [name |-> <<"g">>, isArray |-> TRUE, values |-> <<NumInt(4), NumInt(5)>>]>>,
     <<[name |-> <<"h">>, isArray |-> TRUE, values |-> <<NumInt(1)>>],
       [name |-> <<"g">>, isArray |-> TRUE, values |-> <<NumInt(4), NumInt(5)>>]>>,
     <<[name |-> <<"h">>, isArray |-> TRUE, values |-> <<NumInt(1), NumInt(2)>>],
       [name |-> <<"g">>, isArray |-> FALSE, values |-> <<>>]>>}
Columns == {defaultCol, <<"h">>, <<"g">>}
Ks == {NumInt(0), NumInt(10), NumInt(25), NumInt(50), NumInt(66), NumInt(75), NumInt(90),
       NumInt(100), NumInt(-1), NumInt(101), NaN}
FilterCbs == {"undefined", "all", "notFunction"}

\* a call of the data layer has ended with result r
DataReturns(f, a, r, objects, prototype, frame) ==
    /\ fn' = f
    /\ args' = a
    /\ pc' = IF r.kind = "error" THEN "threw" ELSE "done"
    /\ ret' = r
    /\ loc' = [objects |-> objects, prototype |-> prototype]
    /\ sub' = frame

\* ss(data, delimiter)
Ss(data, delimiter) ==
    \E made \in {globalObject(data, delimiter, loc.prototype)} :
       DataReturns("ss", [data |-> data, delimiter |-> delimiter], made.result,
                   IF made.result.kind = "error" THEN loc.objects
                   ELSE Append(loc.objects, made.result.value),
                   made.prototype, NoSub)
\* ss of a file, of an array, of an object literal, of nothing or a number
SsFile ==
    /\ Len(loc.objects) < MaxObjects
    /\ \E file \in Files, delimiter \in Delimiters : Ss([type |-> "string", v |-> file], delimiter)
SsArray ==
    /\ Len(loc.objects) < MaxObjects
    /\ \E items \in Arrays : Ss([type |-> "array", v |-> items], "undefined")
SsObject ==
    /\ Len(loc.objects) < MaxObjects
    /\ \E columns \in ObjectLiterals : Ss([type |-> "object", v |-> columns], "undefined")
SsOther ==
    /\ Len(loc.objects) < MaxObjects
    /\ \E type \in {"undefined", "number"} : Ss([type |-> type, v |-> <<>>], "undefined")

\* object.percentile(k, column, filterCb)
PercentileWith(ks, columns, filterCbs) ==
    \E o \in 1..Len(loc.objects), k \in ks, column \in columns, filterCb \in filterCbs :
       \E r \in {percentile(k, ObjectJson(o), column, filterCb)} :
          DataReturns("percentile", [object |-> o, k |-> k, column |-> column, filterCb |-> filterCb],
                      r.result, loc.objects, loc.prototype, [fn |-> "percentile", reads |-> r.reads])

PercentileCall ==
    /\ Len(loc.objects) > 0
    /\ PercentileWith(Ks, Columns, FilterCbs)
\* a call of percentile made between the calls of ss
PercentileUse ==
    /\ Len(loc.objects) > 0
    /\ PercentileWith({NumInt(50), NaN}, {<<"h">>}, {"undefined"})

\* object.median(column, filterCb)
MedianCall ==
    /\ Len(loc.objects) > 0
    /\ \E o \in 1..Len(loc.objects), column \in Columns, filterCb \in FilterCbs :
          \E r \in {median(ObjectJson(o), column, filterCb)} :
             DataReturns("median", [object |-> o, column |-> column, filterCb |-> filterCb],
                         r.result, loc.objects, loc.prototype, [fn |-> "percentile", reads |-> r.reads])

\* the library has been loaded and no data object made
InitData ==
    /\ fn = "load"
    /\ args = NoLoc
    /\ pc = "done"
    /\ loc = [objects |-> <<>>, prototype |-> [errors |-> NoErrors]]
    /\ sub = NoSub
    /\ ret = NoRet

NextData ==
    \/ SsFile
    \/ SsArray
    \/ SsObject
    \/ SsOther
    \/ PercentileUse

SpecData == InitData /\ [][NextData]_vars

\* one data object has been made, from a file or from an array
InitColumns ==
    /\ fn = "ss"
    /\ pc = "done"
    /\ sub = NoSub
    /\ \/ \E file \in Files, delimiter \in Delimiters :
             /\ args = [data |-> [type |-> "string", v |-> file], delimiter |-> delimiter]
             /\ fileParser(file, delimiter).kind # "error"
             /\ ret = globalObject(args.data, delimiter, [errors |-> NoErrors]).result
             /\ loc = [objects |-> <<ret.value>>,
                       prototype |-> globalObject(args.data, delimiter, [errors |-> NoErrors]).prototype]
       \/ \E items \in Arrays :
             /\ args = [data |-> [type |-> "array", v |-> items], delimiter |-> "undefined"]
             /\ ret = globalObject(args.data, "undefined", [errors |-> NoErrors]).result
             /\ loc = [objects |-> <<ret.value>>, prototype |-> [errors |-> NoErrors]]

NextColumns ==
    \/ PercentileCall
    \/ MedianCall

SpecColumns == InitColumns /\ [][NextColumns]_vars

(***************************************************************************)
(* Claims                                                                  *)
(***************************************************************************)
SearchValid ==
    IF fn = "binom.inv" THEN Len(BinomInvErrors(args)) = 0
    ELSE fn = "poisson.inv" /\ Len(PoissonInvErrors(args)) = 0

\* the largest k looked at when searching for the Poisson quantile
MaxK == 12

RatOfProb(x) == RatOfNum(x)
BinomSmallestK(a) ==
    CHOOSE k \in 0..IntOf(a.trials) :
       /\ ~RatGt(RatOfProb(a.cumulativeProb), BinomCumulative(k, IntOf(a.trials), RatOfProb(a.successProb)))
       /\ \A j \in 0..(k - 1) :
             RatGt(RatOfProb(a.cumulativeProb), BinomCumulative(j, IntOf(a.trials), RatOfProb(a.successProb)))

PoissonReaches(k, a) ==
    a.avgSuccesses.q = 0
    \/ ~RLt(PoissonCumulative(RZero, k, a.avgSuccesses), ROfNum(a.cumulativeProb))

PoissonSmallestK(a) ==
    CHOOSE k \in 0..MaxK : PoissonReaches(k, a) /\ \A j \in 0..(k - 1) : ~PoissonReaches(j, a)

\* C1: on every valid input binom.inv and poisson.inv end by returning the
\* smallest integer k of the support whose cumulative probability is at
\* least the target (for poisson.inv, targets below 1).
C1_SmallestK ==
    (pc \in {"done", "threw", "diverged"} /\ SearchValid
        /\ (fn = "poisson.inv" => Lt(args.cumulativeProb, NumInt(1))))
    => /\ pc = "done"
       /\ ret = Value(NumInt(IF fn = "binom.inv" THEN BinomSmallestK(args) ELSE PoissonSmallestK(args)))

\* C2: for p strictly between 0 and 1, the normal cumulative distribution at
\* the value norm.inv returns is within 1e-8 of p.
C2_RoundTrip ==
    (fn = "norm.inv" /\ pc = "back" /\ RGt(args.prob, RZero) /\ RLt(args.prob, ROne))
    => ~RGt(RAbs(RSub(sub.prob, args.prob)), RLit(1, 0, <<0, 0, 1, 0>>))

\* C3: no capped loop passes its maximum count, whatever the error test says:
\* the series loops make fewer than 1000 passes, the continued fraction uses
\* at most 50 terms, the search loops make at most 1000 passes.
C3_LoopCaps ==
    /\ fn \in SeriesLoops => loc.passes < 1000
    /\ fn = "lnBetaIncomplete" => loc.terms <= 50
    /\ fn \in SolverLoops => loc.passes <= 1000

\* a loop stopped by its count alone: the last error test still asked for more
C3_Witness ==
    /\ pc = "done"
    /\ loc.exceeds
    /\ \/ fn = "lnBetaIncomplete" /\ loc.terms = 50
       \/ fn = "norm.dist" /\ loc.passes = 999
       \/ fn = "binom.invp" /\ loc.passes = 1000

\* C4: every call of binom.inv and poisson.inv comes to an end, by returning
\* or by raising an error.
C4_Terminates == <>(pc \in {"done", "threw"})

\* a valid call that left the loop through the stall test, the loop condition
\* still being true
C4_Witness ==
    /\ pc = "done"
    /\ SearchValid
    /\ loc # NoLoc
    /\ StepNotOne(loc.step)

\* a probability argument below 0 or above 1
OutsideUnit(x) == Lt(x, NumInt(0)) \/ Gt(x, NumInt(1))
ProbabilityArgOutside ==
    CASE fn = "binom.dist" -> OutsideUnit(args.probability)
      [] fn = "binom.inv" -> OutsideUnit(args.cumulativeProb) \/ OutsideUnit(args.successProb)
      [] fn \in {"binom.invp", "poisson.inv", "poisson.invmu"} -> OutsideUnit(args.cumulativeProb)
      [] fn \in {"binom.conf", "poisson.conf", "norm.conf", "t.conf", "chisq.conf"} -> OutsideUnit(args.alpha)
      [] fn = "norm.inv" -> RLt(args.prob, RZero) \/ RGt(args.prob, ROne)
      [] fn \in {"t.inv", "chisq.inv"} -> OutsideUnit(args.prob)
      [] OTHER -> FALSE

\* C5: a call of binom.dist, binom.inv, binom.invp, binom.conf, poisson.inv,
\* poisson.invmu, poisson.conf, norm.inv, norm.conf, t.inv, t.conf, chisq.inv
\* or chisq.conf with its probability or alpha below 0 or above 1 ends by
\* raising an error and never by returning a result.
C5_ProbabilityRejected == (pc # "call" /\ ProbabilityArgOutside) => pc = "threw"

\* the arguments pass the checks binom.conf or poisson.conf makes itself
ConfValid ==
    \/ /\ fn = "binom.conf"
       /\ Len(BinomConfErrors(args.alpha, args.successes, args.trials,
                              BinomConfMethod(args.type, args.method))) = 0
       /\ BinomConfType(args.type, args.method) \in {"1", "lower", "2", "two", "3", "upper"}
    \/ /\ fn = "poisson.conf"
       /\ Len(PoissonConfErrors(args.alpha, args.successes)) = 0
       /\ SideOf(args.type) \in {"1", "lower", "2", "two", "3", "upper"}

\* C6: binom.conf and poisson.conf return an interval for every input that
\* passes their own argument checks (successes = 0 and successes = trials
\* included, for each method and each side); no error comes out of an inner call.
C6_ConfTotal == (pc # "call" /\ ConfValid) => (pc = "done" /\ ret.kind = "value")

\* C7: test1s returns a probability, a value in [0, 1], for every valid sample
\* and every alternative; the two-sided p-value never exceeds 1 (checked for
\* chisq.test1s).
C7_PValueInUnit ==
    (fn = "chisq.test1s" /\ pc = "done") => (~RLt(ret.value, RZero) /\ ~RGt(ret.value, ROne))

\* C8: combinations(n, k) raises an error whenever k > n or n or k is no
\* number, and never returns a number for such input.
C8_CombinationsRejects ==
    (fn = "combinations" /\ pc # "call" /\ (Gt(args.k, args.n) \/ isNaN(args.n) \/ isNaN(args.k)))
        => pc = "threw"

\* the preconditions a call violates, each with the message that reports it:
\* successes and trials are integers, 0 <= successes <= trials, and the
\* probability is given and is a number in [0, 1]; x is a number in [0, 1] and
\* a and b are numbers
BinomDistViolated(a) ==
    {v \in { [when |-> ~isInt(a.successes),
              by |-> "binom.dist: The number of successes must be an integer"],
             [when |-> Lt(a.successes, NumInt(0)),
              by |-> "binom.dist: The number of successes must be a positive integer"],
             [when |-> ~isInt(a.trials),
              by |-> "binom.dist: The number of trials must be an integer"],
             [when |-> Lt(a.trials, NumInt(0)),
              by |-> "binom.dist: The number of trials must be a positive integer"],
             [when |-> Gt(a.successes, a.trials),
              by |-> "binom.dist: It is impossible to have more successes than trials"],
             [when |-> a.probability.t = "undef",
              by |-> "binom.dist: A probability of success must be provided"],
             [when |-> a.probability.t # "undef" /\ (isNaN(a.probability) \/ OutsideUnit(a.probability)),
              by |-> "binom.dist: The probability of a success must be between 0 and 1"] } : v.when}
LnBetaIncompleteViolated(a) ==
    {v \in { [when |-> isNaN(a.x), by |-> "lnBetaIncomplete: the parameter x must be a number"],
             [when |-> OutsideUnit(a.x), by |-> "lnBetaIncomplete: the parameter x must be between 0 and 1"],
             [when |-> isNaN(a.a), by |-> "lnBetaIncomplete: the parameter a must be a number"],
             [when |-> isNaN(a.b), by |-> "lnBetaIncomplete: the parameter b must be a number"] } : v.when}
Violated == IF fn = "binom.dist" THEN BinomDistViolated(args) ELSE LnBetaIncompleteViolated(args)
Reported == {ret.errors[i] : i \in 1..Len(ret.errors)}

\* C9: when a call of binom.dist or lnBetaIncomplete violates several
\* preconditions at once, the one error it raises reports every one of them,
\* and it is raised before the computation of the result starts (pc never
\* goes from "compute" to "threw": the error comes out of the checks).
C9_AllReported ==
    (fn \in {"binom.dist", "lnBetaIncomplete"} /\ pc = "threw" /\ Cardinality(Violated) >= 2)
        => \A v \in Violated : v.by \in Reported

\* C10: lnGamma(z) raises an error for every z <= 0 (z = 0 included) and for
\* every z that is no number; it returns a value only when z > 0.
C10_LnGammaDomain ==
    (fn = "lnGamma" /\ pc # "call") => (pc = "done" <=> Gt(args.z, NumInt(0)))
\* C11: norm.dist raises an error when the standard deviation is zero,
\* negative or no number, and returns a value only when it is greater than 0
C11_StdevRejected ==
    (fn = "norm.dist" /\ pc # "call") => (pc = "done" <=> Gt(args.stdev, NumInt(0)))
\* n and k are non-negative integers and k <= n
CountsValid ==
    /\ isInt(args.n) /\ isInt(args.k)
    /\ args.n.q >= 0 /\ args.k.q >= 0 /\ args.k.q <= args.n.q

\* C12: permutations(n, k) raises an error whenever n or k is negative or
\* fractional or k > n, and returns a value only for non-negative integers
\* with k <= n
C12_PermutationsRejects ==
    (fn = "permutations" /\ pc # "call") => (pc = "done" <=> CountsValid)
\* n * (n - 1) * ... * (n - k + 1), a product of k factors
RECURSIVE FallingProduct(_, _)
FallingProduct(n, k) == IF k = 0 THEN 1 ELSE (n - k + 1) * FallingProduct(n, k - 1)

\* C16: for non-negative integers n and k with k <= n, permutations(n, k)
\* returns the falling product n * (n - 1) * ... * (n - k + 1) of exactly k
\* factors, which is 1 when k = 0
C16_FallingProduct ==
    (fn = "permutations" /\ pc # "call" /\ CountsValid) =>
        /\ pc = "done"
        /\ ret.value = Rat(FallingProduct(IntOf(args.n), IntOf(args.k)), 1)
        /\ (args.k = NumInt(0) => ret.value = Rat(1, 1))

\* permutations(MaxTrials, 2) has returned MaxTrials * (MaxTrials - 1)
C16_Witness ==
    /\ fn = "permutations" /\ pc = "done"
    /\ args.n = NumInt(MaxTrials) /\ args.k = NumInt(2)
    /\ ret.value = Rat(MaxTrials * (MaxTrials - 1), 1)
\* successes <= trials are non-negative integers and the probability is in [0, 1]
BinomArgsValid ==
    /\ isInt(args.successes) /\ isInt(args.trials)
    /\ args.successes.q >= 0 /\ args.successes.q <= args.trials.q
    /\ args.probability.t = "num" /\ ~OutsideUnit(args.probability)

\* the binomial coefficient by Pascal's rule
RECURSIVE Choose(_, _)
Choose(n, k) ==
    IF k = 0 \/ k = n THEN 1
    ELSE IF k < 0 \/ k > n THEN 0
    ELSE Choose(n - 1, k - 1) + Choose(n - 1, k)

\* b^e with 0^0 = 1
RECURSIVE IntPow(_, _)
IntPow(b, e) == IF e = 0 THEN 1 ELSE b * IntPow(b, e - 1)

\* C(n, k) * p^k * (1 - p)^(n - k) for p a fraction in lowest terms
BinomialMass(k, n, p) ==
    Rat(Choose(n, k) * IntPow(p.n, k) * IntPow(p.d - p.n, n - k), IntPow(p.d, n))

\* C13: in exact arithmetic binom.dist(k, n, p, false) returns
\* C(n, k) * p^k * (1 - p)^(n - k) for every valid (k, n, p), p = 0, p = 1,
\* k = 0 and k = n included; for (3, 10, 0.5) that is 0.1171875 = 15 / 128
C13_MassFormula ==
    (fn = "binom.dist" /\ pc \in {"done", "threw"} /\ BinomArgsValid /\ ~args.cumulative) =>
        /\ pc = "done"
        /\ ret.value = BinomialMass(IntOf(args.successes), IntOf(args.trials), RatOfNum(args.probability))
        /\ (args.successes = NumInt(3) /\ args.trials = NumInt(10) /\ args.probability = Half
                => ret.value = Rat(15, 128))

\* binom.dist(3, 10, 0.5, false) has returned 15 / 128
C13_Witness ==
    /\ fn = "binom.dist" /\ pc = "done" /\ ~args.cumulative
    /\ args.successes = NumInt(3) /\ args.trials = NumInt(10) /\ args.probability = Half
    /\ ret.value = Rat(15, 128)

\* the values binom.dist(j, n, p, false) for j = 0..k, added from j = 0 upwards
RECURSIVE MassSum(_, _, _, _)
MassSum(j, k, trials, probability) ==
    IF j > k THEN Rat(0, 1)
    ELSE RatAdd(BinomDist(NumInt(j), trials, probability, FALSE).value,
                MassSum(j + 1, k, trials, probability))

C15_Symmetric ==
    (fn = "combinations" /\ pc # "call" /\ CountsValid) =>
        /\ pc = "done"
        /\ ret = Combinations(args.n, Num(args.n.q - args.k.q))

\* combinations(MaxTrials, 1) has returned MaxTrials, through the branch
\* k <= n - k, and combinations(MaxTrials, MaxTrials - 1) takes the other one
C15_Witness ==
    /\ fn = "combinations" /\ pc = "done"
    /\ args.n = NumInt(MaxTrials) /\ args.k = NumInt(1)
    /\ ret.value = Rat(MaxTrials, 1)
    /\ MaxTrials - 1 > MaxTrials - (MaxTrials - 1)
\* the five functions that return a confidence interval
ConfFunctions == {"norm.conf", "t.conf", "chisq.conf", "binom.conf", "poisson.conf"}

\* the arguments pass the checks the function makes of them and name a side
ConfRequestValid ==
    \/ ConfValid
    \/ /\ fn = "norm.conf"
       /\ Len(NormConfErrors(args.alpha, args.popStdev, args.sampleSize)) = 0
       /\ SideOf(args.type) \in {"1", "lower", "2", "two", "3", "upper"}
    \/ /\ fn = "t.conf"
       /\ Len(TConfErrors(args.alpha, args.sampleStdev, args.sampleSize)) = 0
       /\ SideOf(args.type) \in {"1", "lower", "2", "two", "3", "upper"}
    \/ /\ fn = "chisq.conf"
       /\ Len(ChisqConfErrors(args.alpha, args.sampleStdev, args.sampleSize)) = 0
       /\ SideOf(args.type) \in {"1", "lower", "2", "two", "3", "upper"}

\* the side asked for, after the defaults of the function
ConfSide == IF fn = "binom.conf" THEN BinomConfType(args.type, args.method) ELSE SideOf(args.type)

\* the bound is a real number: neither NaN nor left out
RealBound(b) == b.t \notin {"nan", "undef"}

\* C17: in norm.conf, t.conf, chisq.conf, binom.conf and poisson.conf a
\* one-sided request returns exactly one real bound and NaN (never 0) for the
\* other: the lower bound is NaN for type 1 or "lower", the upper bound is NaN
\* for type 3 or "upper"; a two-sided request returns two real bounds
C17_OneSidedShape ==
    (fn \in ConfFunctions /\ pc # "call" /\ ConfRequestValid) =>
        /\ pc = "done"
        /\ IsLowerSide(ConfSide) => (ret.value.lower = NaN /\ RealBound(ret.value.upper))
        /\ IsUpperSide(ConfSide) => (RealBound(ret.value.lower) /\ ret.value.upper = NaN)
        /\ IsTwoSide(ConfSide) => (RealBound(ret.value.lower) /\ RealBound(ret.value.upper))

\* what does hold: the shape of every interval that is returned, for more
\* than 0 trials
ReturnedIntervalShape ==
    (fn \in ConfFunctions /\ pc = "done" /\ ConfRequestValid /\ (fn = "binom.conf" => args.trials.q > 0)) =>
        /\ IsLowerSide(ConfSide) => (ret.value.lower = NaN /\ RealBound(ret.value.upper))
        /\ IsUpperSide(ConfSide) => (RealBound(ret.value.lower) /\ ret.value.upper = NaN)
        /\ IsTwoSide(ConfSide) => (RealBound(ret.value.lower) /\ RealBound(ret.value.upper))
\* the degrees of freedom of the statistic a bound was computed from, where it
\* is a bound that was computed
DfIsSampleSizeLessOne(bound) ==
    bound.t \in {"bound", "ratio"} => bound.stat.df = AddInt(args.sampleSize, -1)

\* C18: a two-sided t.conf(alpha, sampleMean, sampleStdev, sampleSize) returns
\* the bounds sampleMean - h and sampleMean + h with the half-width
\* h = t.inv(1 - alpha / 2, sampleSize - 1) * sampleStdev / sqrt(sampleSize),
\* and t.conf and chisq.conf use sampleSize - 1 degrees of freedom for every side
C18_HalfWidth ==
    /\ (fn = "t.conf" /\ pc = "done" /\ IsTwoSide(SideOf(args.type)) /\ ~isNaN(args.sampleStdev)) =>
          LET t == [fn |-> "t.inv", prob |-> OneMinus(HalfOf(args.alpha)),
                    df |-> AddInt(args.sampleSize, -1)]
          IN  /\ ret.value.lower = [t |-> "bound", centre |-> args.sampleMean, sign |-> -1, stat |-> t,
                                    scale |-> args.sampleStdev, root |-> args.sampleSize]
              /\ ret.value.upper = [t |-> "bound", centre |-> args.sampleMean, sign |-> 1, stat |-> t,
                                    scale |-> args.sampleStdev, root |-> args.sampleSize]
    /\ (fn \in {"t.conf", "chisq.conf"} /\ pc = "done") =>
          /\ DfIsSampleSizeLessOne(ret.value.lower)
          /\ DfIsSampleSizeLessOne(ret.value.upper)

\* t.conf(0.1, 3, 2, 25, 2) has returned 3 -+ t.inv(0.95, 24) * 2 / sqrt(25)
C18_Witness ==
    /\ fn = "t.conf" /\ pc = "done" /\ args.type = "2"
    /\ args.alpha = Num(2) /\ args.sampleMean = NumInt(3)
    /\ args.sampleStdev = NumInt(2) /\ args.sampleSize = NumInt(25)
    /\ ret.value.lower.stat = [fn |-> "t.inv", prob |-> Num(19), df |-> NumInt(24)]
    /\ ret.value.upper.sign = 1
\* n * p * (1 - p) >= 5 for p = successes / trials, in exact arithmetic
NpqAtLeastFive ==
    /\ args.trials.q > 0
    /\ LET n == Rat(args.trials.q, Unit)
           p == Rat(args.successes.q, args.trials.q)
       IN  ~RatGt(Rat(5, 1), RatMul(RatMul(n, p), RatSub(Rat(1, 1), p)))

\* C19: when no method is given binom.conf uses the normal approximation
\* ("estimate") exactly when n * p * (1 - p) >= 5 and the exact inversion
\* otherwise; a method that is given is the one used
C19_MethodChoice ==
    (fn = "binom.conf" /\ pc = "compute") =>
        loc.method = IF BinomConfMethod(args.type, args.method) # "undefined"
                     THEN BinomConfMethod(args.type, args.method)
                     ELSE IF NpqAtLeastFive THEN "estimate" ELSE "exact"
\* C20: chisq.dist with cumulative = false returns exactly 0 for every
\* statistic <= 0, negative ones as well as 0, without evaluating the formula
\* of the density
C20_DensityZero ==
    (/\ fn = "chisq.dist" /\ pc # "call" /\ ~args.cumulative
     /\ args.chiStat.t = "num" /\ args.chiStat.q <= 0
     /\ args.df.t = "num" /\ args.df.q >= 0)
        => (pc = "done" /\ ret.value = NumInt(0))
\* C21: no state is shared between data objects: the parse errors and the
\* rows that a data object reports are the same after any later call, whether
\* it makes another data object or uses one
C21_ReportsStable ==
    [][\A o \in 1..Len(loc.objects) :
          /\ ObjectErrors(o)' = ObjectErrors(o)
          /\ ObjectJson(o)' = ObjectJson(o)]_vars

\* the rows alone are never changed by a later call
RowsStable == [][\A o \in 1..Len(loc.objects) : ObjectJson(o)' = ObjectJson(o)]_vars
\* the cells of the column a call of percentile or median is about, blank
\* ones apart; a cell is numeric when it is a number or writes one in digits
CalledCells ==
    {ObjectJson(args.object)[i][args.column] :
        i \in {j \in 1..Len(ObjectJson(args.object)) : args.column \in DOMAIN ObjectJson(args.object)[j]}}
NumericCell(c) ==
    \/ c.t = "num"
    \/ c.t = "str" /\ c.s # <<>> /\ \A i \in 1..Len(c.s) : c.s[i] \in Digits
NumericValue(c) == IF c.t = "num" THEN RatOfNum(c) ELSE Rat(DigitsValue(c.s, Len(c.s)), 1)
\* the column has a numeric row and nothing but numeric and blank rows, the
\* blank ones left out by the call
NumericColumn ==
    /\ \E c \in CalledCells : NumericCell(c)
    /\ \A c \in CalledCells : NumericCell(c) \/ (c = Str(<<>>) /\ args.filterCb = "undefined")
    /\ args.filterCb # "notFunction"
ColumnValues == {NumericValue(c) : c \in {d \in CalledCells : NumericCell(d)}}
ColumnMin == CHOOSE v \in ColumnValues : \A w \in ColumnValues : ~RatGt(v, w)
ColumnMax == CHOOSE v \in ColumnValues : \A w \in ColumnValues : ~RatGt(w, v)

CalledCount ==
    Cardinality({j \in 1..Len(ObjectJson(args.object)) :
                    /\ args.column \in DOMAIN ObjectJson(args.object)[j]
                    /\ NumericCell(ObjectJson(args.object)[j][args.column])})

\* C30: for 0 < k < 100 (k = 50 in median) and a column with a numeric row,
\* a single one included, percentile reads no position of the sorted rows
\* outside 0..n-1 and returns a number from the minimum of the column to its
\* maximum
C30_ReadsInRange ==
    (/\ fn \in {"percentile", "median"}
     /\ NumericColumn
     /\ fn = "percentile" => (Gt(args.k, NumInt(0)) /\ Lt(args.k, NumInt(100))))
        => /\ pc = "done"
           /\ sub.reads \subseteq 0..(CalledCount - 1)
           /\ ~RatGt(ColumnMin, ret.value) /\ ~RatGt(ret.value, ColumnMax)

\* where percentile does return for 0 < k < 100, it has read two neighbours
\* inside the sorted rows and the result lies between them
ReturnedInRange ==
    (/\ fn \in {"percentile", "median"} /\ pc = "done"
     /\ NumericColumn
     /\ fn = "percentile" => (Gt(args.k, NumInt(0)) /\ Lt(args.k, NumInt(100))))
        => /\ sub.reads \subseteq 0..(CalledCount - 1)
           /\ ~RatGt(ColumnMin, ret.value) /\ ~RatGt(ret.value, ColumnMax)
\* C23: when the search stops because the absolute error is within the
\* tolerance, it returns the guess at which that error was measured (for
\* norm.inv scaled by stdev and moved by mean): the guess is not moved
\* between the last evaluation and the return
C23_ReturnsMeasuredGuess ==
    [][(/\ fn = "norm.inv" /\ pc = "eval" /\ pc' = "done"
        /\ ~RGt(RAbs(loc'.diff), solverError))
          => ret'.value = RAdd(RMulInt(loc.z, args.stdev), RInt(args.mean))]_vars

\* the guess is left where it is only when the error measured is 0
MovedUnlessExact ==
    [][(fn = "norm.inv" /\ pc = "eval" /\ pc' \in {"loop", "done"})
          => (loc'.z = loc.z <=> RSign(loc'.diff) = 0)]_vars
\* C24: for a probability in [0, 1] and df >= 1, every guess that chisq.inv
\* passes to chisq.dist is >= 0, the first one and the one after any step, so
\* that chisq.inv returns a value and never raises the error chisq.dist has
\* for a negative statistic
C24_GuessesNonNegative ==
    (fn = "chisq.inv" /\ Len(ChisqInvErrors(args.prob, args.df)) = 0) =>
        /\ pc = "loop" => ~RLt(loc.chisq, RZero)
        /\ pc # "threw"

\* a pass of the loop of binom.inv or of poisson.inv
SearchPass == BinomInvPass \/ PoissonInvPass

\* k is an integer of the support: 0..trials for binom.inv, 0.. for poisson.inv
InSupport(k) ==
    /\ k.t = "num"
    /\ ~FracPositive(k)
    /\ ~Lt(k, NumInt(0))
    /\ fn = "binom.inv" => ~Gt(k, args.trials)

SearchGuess == IF fn = "binom.inv" THEN BinomInvGuess(args) ELSE PoissonInvGuess(args)

\* strictly between 0 and 1
InsideUnit(x) == Gt(x, NumInt(0)) /\ Lt(x, NumInt(1))

\* the first guess lies in the support, and the target probability (and for
\* binom.inv the probability of success) is strictly between 0 and 1
SearchInside ==
    /\ SearchValid
    /\ InSupport(SearchGuess)
    /\ InsideUnit(args.cumulativeProb)
    /\ fn = "binom.inv" => InsideUnit(args.successProb)

\* what one pass does to the step, and where it ends
SearchPassBounded ==
    /\ loc'.step.exp < InfExp
    /\ loc.decStep => loc'.decStep
    /\ ~loc'.decStep => loc'.step.exp = loc.step.exp + 1
    /\ loc'.decStep => loc'.step.exp = Max2(loc.step.exp - 1, 0)
    /\ InSupport(loc'.k)
    /\ (SearchInside /\ pc' # "loop")
          => /\ pc' = "done"
             /\ ret' = Value(NumInt(IF fn = "binom.inv" THEN BinomSmallestK(args)
                                    ELSE PoissonSmallestK(args)))

\* C25: in every pass of the loop of binom.inv and poisson.inv the step is an
\* integer >= 1, doubled while no sign change of the error has occurred and
\* halved (not below 1) from the first sign change on; the k the pass
\* evaluates lies in the support; and when the first guess lies in the
\* support and the probabilities are strictly between 0 and 1, the pass that
\* ends the loop ends it at the smallest k whose cumulative probability is
\* at least the target.
C25_SearchLoop == [][SearchPass => SearchPassBounded]_vars

\* the same, for binom.inv and for poisson.inv with a positive rate
SearchLoopPositiveRate ==
    [][(SearchPass /\ (fn = "poisson.inv" => args.avgSuccesses.q > 0)) => SearchPassBounded]_vars

\* a pass of one of the continuous searches
InversePass == NormInvPass \/ TInvPass \/ ChisqInvPass

\* the guess of the search
InverseGuess(l) ==
    CASE fn = "norm.inv" -> l.z
      [] fn = "t.inv" -> l.t
      [] fn = "chisq.inv" -> l.chisq

\* the error the step is compared with: that of the pass before, and on the
\* first pass the value lastDiff starts with
PreviousError == IF loc.iter = 0 THEN ROne ELSE loc.diff

\* the step times the growth factor (1.2, for chisq.inv 1.09) and times the
\* shrink factor (0.5, for chisq.inv 0.35)
Grown(step) == IF fn = "chisq.inv" THEN RDivInt(RMulInt(step, 109), 100) ELSE RDivInt(RMulInt(step, 12), 10)
Shrunk(step) == IF fn = "chisq.inv" THEN RDivInt(RMulInt(step, 35), 100) ELSE RDivInt(step, 2)

SameStrictSign(x, y) == (RGt(x, RZero) /\ RGt(y, RZero)) \/ (RLt(x, RZero) /\ RLt(y, RZero))

ErfLe(a, b) == a = RNegInf \/ b = RInf \/ (IsFinite(a) /\ IsFinite(b) /\ ~RGt(a, b))

\* what the claim says of the probability returned for the error-function
\* value e
ClampedAt(e) ==
    /\ ErfAbove(e, ROne) => ret.value = ROne
    /\ ErfBelow(e, RNeg(ROne)) => ret.value = RZero
    /\ IsFinite(ret.value) /\ ~RLt(ret.value, RZero) /\ ~RGt(ret.value, ROne)
    /\ \A smaller \in ErfValues : ErfLe(smaller, e) => ErfLe(NormProbOfErf(smaller), ret.value)

\* C27: cumulative norm.dist clamps the error-function value to [-1, 1]
\* before mapping it: a value above 1, +Infinity included, gives probability
\* 1; a value below -1, -Infinity included, gives probability 0; the
\* probability returned is in [0, 1] and is not larger for a smaller
\* error-function value.
C27_Clamped == (fn = "norm.dist" /\ pc = "done") => ClampedAt(args.errorFunction)

\* the same for the finite values and +Infinity
ClampedFinite ==
    (fn = "norm.dist" /\ pc = "done" /\ (IsFinite(args.errorFunction) \/ args.errorFunction = RInf))
    => /\ ErfAbove(args.errorFunction, ROne) => ret.value = ROne
       /\ ErfBelow(args.errorFunction, RNeg(ROne)) => ret.value = RZero
       /\ IsFinite(ret.value) /\ ~RLt(ret.value, RZero) /\ ~RGt(ret.value, ROne)
       /\ \A smaller \in ErfValues :
             (IsFinite(smaller) /\ ErfLe(smaller, args.errorFunction))
                => ErfLe(NormProbOfErf(smaller), ret.value)

\* x <= y for two quotients
QuotientLe(x, y) ==
    LET left == RMulInt(y.den, x.num)
        right == RMulInt(x.den, y.num)
        sign == RSign(x.den) * RSign(y.den)
    IN  IF sign > 0 THEN ~RGt(left, right)
        ELSE IF sign < 0 THEN ~RLt(left, right)
        ELSE FALSE

\* a two-sided call with alpha in [0, 1] and a sample of two or more
ChisqConfInRange ==
    /\ fn = "chisq.conf"
    /\ Len(ChisqConfErrors(args.alpha, args.sampleStdev, args.sampleSize)) = 0
    /\ ~Lt(args.sampleSize, NumInt(2))

\* C28: a two-sided chisq.conf calls chisq.inv with the probabilities
\* 1 - alpha/2 and alpha/2, which sum to 1, and for every alpha in [0, 1] and
\* every sampleSize >= 2 it returns a lower bound that is <= the upper bound
\* it returns.
C28_BoundsOrdered ==
    (ChisqConfInRange /\ pc \in {"done", "threw"})
    => /\ pc = "done"
       /\ loc.upperBoundProb = RDivInt(ROfNum(args.alpha), 2)
       /\ RAdd(loc.lowerBoundProb, loc.upperBoundProb) = ROne
       /\ QuotientLe(ret.value.lower, ret.value.upper)

\* the same for the calls that return
ReturnedBoundsOrdered ==
    (ChisqConfInRange /\ pc = "done")
    => /\ loc.upperBoundProb = RDivInt(ROfNum(args.alpha), 2)
       /\ RAdd(loc.lowerBoundProb, loc.upperBoundProb) = ROne
       /\ QuotientLe(ret.value.lower, ret.value.upper)

\* C29: t.dist(tValue, df, false) returns a density computed from tValue: a
\* defined non-negative number that depends on tValue and df only and is the
\* same for tValue and -tValue; no variable is read before it has been
\* assigned.
C29_DensityOfTValue ==
    (fn = "t.dist" /\ pc = "done" /\ args.cumulative = "false")
    => ret.value = TDensityAt(args.tValue, args.df)

\* the cumulative calls return a number
CumulativeDefined ==
    (fn = "t.dist" /\ pc = "done" /\ args.cumulative # "false") => ret.value = SomeNumber
====
